---------------------------- MODULE Spec2Model ----------------------------
(***************************************************************************)
(* A model of katex-rs: the Lexer (crates/katex/src/lexer/mod.rs) as a     *)
(* state machine over its byte offset and category-code map, and the       *)
(* macro expander and parser as described by the specification.            *)
(*                                                                         *)
(* Characters are Unicode codepoints (naturals); a string is a sequence of *)
(* codepoints; every offset and length is in UTF-8 bytes, as in the code.  *)
(* An Option is a set with at most one element: None = {}, Some(x) = {x}.  *)
(***************************************************************************)
EXTENDS Integers, Sequences, FiniteSets, TLC

VARIABLES
    input,        \* Lexer.input: the text being lexed
    last_index,   \* Lexer.last_index: byte offset of the next read
    catcodes,     \* Lexer.catcodes: char -> category code
    policy,       \* Lexer.settings: the strict-mode policy's verdict on
                  \* "commentAtEnd", "unknown" until first consulted
    op,           \* the last operation called on the lexer
    before,       \* last_index when lex() or set_catcode() was called, the
                  \* argument of set_position()
    result,       \* what that operation returned
    fresh,        \* only lex() has been called since Lexer::new
    calls,        \* while fresh: the lex() calls up to the first that
                  \* returned EOF or an error
    reachedEnd,   \* while fresh: some lex() returned EOF or an error
    mark          \* one earlier lex() call, remembered for comparison: the
                  \* offset and category codes it started from, what it
                  \* returned, the offset it left, and whether and from
                  \* where the lexer has since been set back to its offset

VARIABLES
    stack,            \* MacroExpander: the pending tokens, next token first
    macros,           \* Settings.macros: name -> replacement tokens
    max_expand,       \* Settings.max_expand
    expansion_count,  \* MacroExpander: the expansions made so far
    exp_state,        \* "idle", "expanding", "returned" or "failed"
    yielded,          \* the token the last pull returned
    source,           \* the token stream the expander started from
    emitted           \* the tokens returned so far, EOF left out

VARIABLES
    tokens,       \* Parser: the expanded token stream it consumes
    ptr,          \* index of the next token
    frames,       \* the constructs being parsed, innermost last
    perr,         \* the ParseError the parse ended with, or NoError
    pdone         \* the parse returned a tree

lexerVars == <<input, last_index, catcodes, policy, op, before, result,
               fresh, calls, reachedEnd, mark>>

expanderVars == <<stack, macros, max_expand, expansion_count, exp_state,
                  yielded, source, emitted>>

parserVars == <<tokens, ptr, frames, perr, pdone>>

VARIABLES
    token_values, \* the Token values alive, in the order they were made
    tok_op        \* the last operation on a Token, and the tokens it took

VARIABLES
    measurement,  \* calculate_size: the Measurement { number, unit }
    options,      \* calculate_size: the Options it is called with
    text_options, \* what options.having_style(options.style.text()) returns
    size_out,     \* what calculate_size returned
    em_n,         \* make_em: the number to format
    em_out,       \* what make_em returned
    units_op      \* the last units function called

VARIABLES
    func_name,    \* mclass: context.func_name of the handler call
    args,         \* the arguments the handler is called with
    parser_mode,  \* context.parser.mode
    call_loc,     \* context.loc()
    parsed,       \* what the handler returned
    inner,        \* mathml_builder: what build_expression returned
    built,        \* what mathml_builder returned
    tree_op       \* the last mclass function called

VARIABLES
    contexts,     \* the Options values alive, the root context first
    ctx_op        \* the last derivation, and the context it was called on

VARIABLES
    class_list,   \* a ClassList value
    class_op      \* the last ClassList operation and what it returned

VARIABLES
    attempts,           \* run_browser: args.attempts
    allow_js_fallback,  \* args.allow_js_fallback
    concurrency_limit,  \* the most comparisons in flight
    case_states,        \* Vec<CaseState>, by case index
    queue,              \* VecDeque<usize>: the cases waiting for a render
    compare_tasks,      \* JoinSet: the case index of every comparison
                        \* in flight
    fallback_tasks,     \* VecDeque<PendingFallback>, by case index
    failures,           \* Vec<(String, CaseResult)>: case index and status
    run_state           \* "loop", "done" or "fatal"

tokenVars == <<token_values, tok_op>>

deriveVars == <<contexts, ctx_op>>

classVars == <<class_list, class_op>>

runnerVars == <<attempts, allow_js_fallback, concurrency_limit, case_states,
                queue, compare_tasks, fallback_tasks, failures, run_state>>

treeVars == <<func_name, args, parser_mode, call_loc, parsed, inner, built,
              tree_op>>

\* the values of functions/mclass.rs, of Options, of types/class_list.rs
\* and of the screenshot runner
restVars == <<treeVars, deriveVars, classVars, runnerVars>>

unitsVars == <<measurement, options, text_options, size_out, em_n, em_out,
               units_op>>

\* the values of types/ and units.rs, which no lexer, expander or parser
\* step touches
valueVars == <<tokenVars, unitsVars, restVars>>

vars == <<lexerVars, expanderVars, parserVars, valueVars>>

---------------------------------------------------------------------------
(* Bounds of the model. *)

\* Longest input of Spec, in pieces of CatPieces.
MaxCatPieces == 3

\* Longest input of ScanSpec, in pieces of MainPieces.
MaxPieces == 3

\* Longest input of the \verb specification, in pieces of VerbPieces.
MaxVerbPieces == 4

\* Longest input of the whitespace specification, in pieces of SpacePieces.
MaxSpacePieces == 4

\* Longest input of the backtracking specification, in pieces of CatPieces.
MaxMarkPieces == 2

\* Significant bits of an f64 of the model.
MantissaBits == 16

\* Bits of an i64 of the model.
I64Bits == 24

\* Significant bits of the numbers make_em is called with.
InputBits == 10

\* The numbers make_em is called with are multiples of 2^-MaxShift.
MaxShift == 16

\* Largest whole number of a Measurement, in either sign.
MaxNumber == 2

\* Most Token values made in one run of the Token specification.
MaxTokens == 3

\* the most cases of a screenshot run, and the most attempts per case
MaxCases == 2
MaxAttempts == 2

\* the longest vector or slice a ClassList is built from
MaxClasses == 2

\* the most Options values alive at once
MaxContexts == 3

\* the longest body of a group given to an mclass function
MaxBody == 2

\* Largest max_expand of the settings the expander runs under.
MaxExpandLimit == 2

\* Longest token stream handed to the expander.
MaxInputTokens == 2

\* Longest input of the parser specifications, in pieces.
MaxSupSubPieces == 4
MaxEnvPieces == 4
MaxGroupPieces == 4

---------------------------------------------------------------------------
(* Strings. *)

Min(S) == CHOOSE x \in S : \A y \in S : x <= y

\* char::len_utf8
len_utf8(ch) ==
    IF ch < 128 THEN 1 ELSE IF ch < 2048 THEN 2 ELSE IF ch < 65536 THEN 3 ELSE 4

\* str::len: the length of a string in bytes
RECURSIVE str_len(_)
str_len(s) == IF s = <<>> THEN 0 ELSE len_utf8(Head(s)) + str_len(Tail(s))

\* byte offset at which the i-th character (1-based) of s starts
byte_offset(s, i) == str_len(SubSeq(s, 1, i - 1))

\* str::is_char_boundary
is_char_boundary(s, b) == \E i \in 1..(Len(s) + 1) : byte_offset(s, i) = b

\* &s[b..] for b on a character boundary
str_from(s, b) ==
    LET i == CHOOSE k \in 1..(Len(s) + 1) : byte_offset(s, k) = b
    IN  SubSeq(s, i, Len(s))

\* &s[..n] for n on a character boundary
str_to(s, n) ==
    LET i == CHOOSE k \in 1..(Len(s) + 1) : byte_offset(s, k) = n
    IN  SubSeq(s, 1, i - 1)

\* str::find(ch): the byte offset of the first occurrence, as an Option
str_find(s, ch) ==
    LET hits == {i \in 1..Len(s) : s[i] = ch}
    IN  IF hits = {} THEN {} ELSE {byte_offset(s, Min(hits))}

\* utils::AdvanceWhile::advance_while over the bytes of s, for a predicate
\* given as the set of bytes it accepts: the number of leading bytes
\* accepted.  The predicates used accept ASCII bytes only, so the count stops
\* at the first multi-byte character.
advance_while(accepted, s) ==
    LET stops == {i \in 1..Len(s) : s[i] \notin accepted}
    IN  IF stops = {} THEN Len(s) ELSE Min(stops) - 1

\* the byte values
Bytes == 0..255

\* the sequence s without its first n elements
Drop(s, n) == SubSeq(s, n + 1, Len(s))

---------------------------------------------------------------------------
(* The matchers of lexer/mod.rs. *)

is_combining_mark(ch) == ch >= 768 /\ ch <= 879

is_ascii_space(b) == b \in {32, 9, 13, 10}

AsciiSpaceBytes == {b \in Bytes : is_ascii_space(b)}

\* match_space taking one whitespace byte
match_space_one(s) ==
    IF s # <<>> /\ is_ascii_space(s[1]) THEN {1} ELSE {}

match_space(s) ==
    LET len == advance_while(AsciiSpaceBytes, s)
    IN  IF len > 0 THEN {len} ELSE {}

is_hspace(b) == b \in {32, 13, 9}

HspaceBytes == {b \in Bytes : is_hspace(b)}

\* match_control_space_after_bs taking every whitespace byte that follows
match_control_space_greedy(rest) ==
    IF rest = <<>> \/ ~is_ascii_space(rest[1]) THEN {}
    ELSE {advance_while(AsciiSpaceBytes, rest)}

match_control_space_after_bs(rest) ==
    IF rest = <<>> THEN {}
    ELSE LET b1 == rest[1]
             it1 == Tail(rest)
         IN  IF b1 = 10
             THEN {1 + advance_while(HspaceBytes, it1)}
             ELSE IF is_hspace(b1)
             THEN LET h == advance_while(HspaceBytes, it1)
                      it2 == Drop(it1, h)
                      nl == IF it2 # <<>> /\ it2[1] = 10 THEN 1 ELSE 0
                      it3 == Drop(it2, nl)
                  IN  {1 + h + nl + advance_while(HspaceBytes, it3)}
             ELSE {}

\* is_normal_char with the second range running two codepoints too far
is_normal_char_wide(u) ==
    \/ u >= 33 /\ u <= 91
    \/ u >= 93 /\ u <= 8233
    \/ u >= 8234 /\ u <= 55295
    \/ u >= 63744

\* the allow-list of match_normal_char_with_accents
is_normal_char(u) ==
    \/ u >= 33 /\ u <= 91
    \/ u >= 93 /\ u <= 8231
    \/ u >= 8234 /\ u <= 55295
    \/ u >= 63744

\* match_normal_char_with_accents taking the base codepoint alone
match_normal_char_alone(s) ==
    IF s # <<>> /\ is_normal_char(s[1]) THEN {len_utf8(s[1])} ELSE {}

match_normal_char_with_accents(s) ==
    IF s = <<>> THEN {}
    ELSE IF is_normal_char(s[1])
    THEN LET rest == Tail(s)
             others == {i \in 1..Len(rest) : ~is_combining_mark(rest[i])}
             marks == IF others = {} THEN Len(rest) ELSE Min(others) - 1
         IN  {len_utf8(s[1]) + str_len(SubSeq(rest, 1, marks))}
    ELSE {}

match_control_symbol_after_bs(rest) ==
    IF rest = <<>> THEN {}
    ELSE IF rest[1] >= 55296 /\ rest[1] <= 57343 THEN {}
    ELSE {len_utf8(rest[1])}

is_ascii_alphabetic(ch) == (ch >= 65 /\ ch <= 90) \/ (ch >= 97 /\ ch <= 122)

\* "verb"
VerbName == <<118, 101, 114, 98>>

starts_with(s, p) == Len(s) >= Len(p) /\ SubSeq(s, 1, Len(p)) = p

\* match_verb_after_bs closing at the last occurrence of the delimiter
match_verb_to_last(rest) ==
    IF ~starts_with(rest, VerbName) THEN {}
    ELSE LET r1 == Drop(rest, 4)
             star == r1 # <<>> /\ r1[1] = 42
             r2 == IF star THEN Tail(r1) ELSE r1
             prefix_len == IF star THEN 5 ELSE 4
         IN  IF r2 = <<>> THEN {}
             ELSE LET delim == r2[1]
                      breaks == {i \in 2..Len(r2) : r2[i] \in {10, 13}}
                      line == IF breaks = {} THEN Len(r2) ELSE Min(breaks) - 1
                      ends == {i \in 2..line : r2[i] = delim}
                  IN  IF ~star /\ is_ascii_alphabetic(delim) THEN {}
                      ELSE IF ends = {} THEN {}
                      ELSE LET i == CHOOSE e \in ends : \A o \in ends : o <= e
                           IN  {<<prefix_len + byte_offset(r2, i)
                                     + len_utf8(r2[i]), star>>}

\* Some(<<matched length, star>>) or None
match_verb_after_bs(rest) ==
    IF ~starts_with(rest, VerbName) THEN {}
    ELSE LET r1 == Drop(rest, 4)
             star == r1 # <<>> /\ r1[1] = 42
             r2 == IF star THEN Tail(r1) ELSE r1
             prefix_len == IF star THEN 5 ELSE 4
         IN  IF r2 = <<>> THEN {}
             ELSE LET delim == r2[1]
                      \* the first later character that ends the scan
                      ends == {i \in 2..Len(r2) : r2[i] \in {10, 13, delim}}
                  IN  IF ~star /\ is_ascii_alphabetic(delim) THEN {}
                      ELSE IF ends = {} THEN {}
                      ELSE LET i == Min(ends)
                           IN  IF r2[i] \in {10, 13} THEN {}
                               ELSE {<<prefix_len + byte_offset(r2, i)
                                         + len_utf8(r2[i]), star>>}

is_ascii_alpha_or_at(b) ==
    (b >= 65 /\ b <= 90) \/ (b >= 97 /\ b <= 122) \/ b = 64

AlphaOrAtBytes == {b \in Bytes : is_ascii_alpha_or_at(b)}

\* Some(<<letters, whitespace>>) or None
match_control_word_with_space_after_bs(rest) ==
    LET n == advance_while(AlphaOrAtBytes, rest)
    IN  IF n = 0 THEN {}
        ELSE {<<n, advance_while(AsciiSpaceBytes, Drop(rest, n))>>}

TokenMatch(b, m, s) == [branch |-> b, mlen |-> m, skip |-> s]

\* exec: the branch matched at the start of a non-empty slice, the matched
\* length and the trailing bytes left out of the token's text.  The caller's
\* last_index advances by mlen.
exec_backslash(slice) ==
    LET rest == Tail(slice)
        cs == match_control_space_after_bs(rest)
        vb == match_verb_after_bs(rest)
        cw == match_control_word_with_space_after_bs(rest)
        sy == match_control_symbol_after_bs(rest)
    IN  IF cs # {}
        THEN {TokenMatch("ControlSpace", 1 + (CHOOSE l \in cs : TRUE), 0)}
        ELSE IF vb # {}
        THEN LET m == CHOOSE x \in vb : TRUE
             IN  {TokenMatch(IF m[2] THEN "VerbStar" ELSE "Verb", 1 + m[1], 0)}
        ELSE IF cw # {}
        THEN LET m == CHOOSE x \in cw : TRUE
             IN  {TokenMatch("ControlWordWhitespace", 1 + m[1] + m[2], m[2])}
        ELSE IF sy # {}
        THEN {TokenMatch("ControlSymbol", 1 + (CHOOSE l \in sy : TRUE), 0)}
        ELSE {}

\* exec with an unknown character matched at length 0
exec_stuck(slice) ==
    LET sp == IF is_ascii_space(slice[1]) THEN match_space(slice) ELSE {}
        bs == IF slice[1] = 92 THEN exec_backslash(slice) ELSE {}
        nc == match_normal_char_with_accents(slice)
    IN  IF sp # {} THEN TokenMatch("Space", CHOOSE l \in sp : TRUE, 0)
        ELSE IF bs # {} THEN CHOOSE m \in bs : TRUE
        ELSE IF nc # {}
        THEN TokenMatch("NormalWithAccents", CHOOSE l \in nc : TRUE, 0)
        ELSE TokenMatch("Unknown", 0, 0)

exec(slice) ==
    LET sp == IF is_ascii_space(slice[1]) THEN match_space(slice) ELSE {}
        bs == IF slice[1] = 92 THEN exec_backslash(slice) ELSE {}
        nc == match_normal_char_with_accents(slice)
    IN  IF sp # {} THEN TokenMatch("Space", CHOOSE l \in sp : TRUE, 0)
        ELSE IF bs # {} THEN CHOOSE m \in bs : TRUE
        ELSE IF nc # {}
        THEN TokenMatch("NormalWithAccents", CHOOSE l \in nc : TRUE, 0)
        ELSE TokenMatch("Unknown", len_utf8(slice[1]), 0)

---------------------------------------------------------------------------
(* The Lexer. *)

\* "EOF", " " and "\ "
EofText == <<69, 79, 70>>
SpaceText == <<32>>
ControlSpaceText == <<92, 32>>

\* Ok(Token{text, loc: start..end}); report is the verdict of the strict-mode
\* policy when the call consulted it, "none" otherwise
OkToken(text, start, end) ==
    [kind |-> "Token", text |-> text, start |-> start, end |-> end,
     report |-> "none"]

\* Err(ParseError{kind, loc: start..end}); text carries the kind's field
ErrResult(kind, text, start, end) ==
    [kind |-> kind, text |-> text, start |-> start, end |-> end,
     report |-> "none"]

\* the slice index panicked: last_index inside a character
PanicResult(pos) ==
    [kind |-> "Panic", text |-> <<>>, start |-> pos, end |-> pos,
     report |-> "none"]

\* a call that returns nothing (set_catcode, set_position)
NoResult ==
    [kind |-> "None", text |-> <<>>, start |-> 0, end |-> 0, report |-> "none"]

\* the verdicts a strict-mode policy can return
Verdicts == {"ignore", "warn", "error"}

\* Settings::report_nonstrict: Err exactly when the policy escalates
report_nonstrict(verdict) == verdict = "error"

\* Lexer::get_catcode
get_catcode(cats, ch) == IF ch \in DOMAIN cats THEN {cats[ch]} ELSE {}

\* token_text with a control word's trailing whitespace kept in its text
token_text_with_space(slice, matched) ==
    CASE matched.branch = "ControlSpace" -> ControlSpaceText
      [] matched.branch = "Space" -> SpaceText
      [] OTHER -> str_to(slice, matched.mlen)

\* the text of the token for a match at byte offset 0 of slice
token_text(slice, matched) ==
    CASE matched.branch = "ControlWordWhitespace" ->
             str_to(slice, matched.mlen - matched.skip)
      [] matched.branch = "ControlSpace" -> ControlSpaceText
      [] matched.branch = "Space" -> SpaceText
      [] OTHER -> str_to(slice, matched.mlen)

\* the comment test of lex: a one-byte text whose character has catcode 14
is_comment(cats, text) ==
    str_len(text) = 1 /\ get_catcode(cats, text[1]) = {14}

\* comment_resume taking every comment to end where its character ends
comment_resume_here(slice, li) == {li}

\* where lex resumes after a comment: Some(offset), or None when the
\* comment has no terminating newline.  li is last_index after exec.
comment_resume(slice, li) ==
    LET rel_pos == str_find(slice, 10)
    IN  IF rel_pos # {} THEN {li + (CHOOSE r \in rel_pos : TRUE)} ELSE {}

\* Lexer::lex from offset pos: [res |-> the result, pos |-> last_index after]
RECURSIVE lex(_, _, _, _)
lex(inp, pos, cats, verdict) ==
    IF pos >= str_len(inp)
    THEN [res |-> OkToken(EofText, pos, pos), pos |-> pos]
    ELSE IF ~is_char_boundary(inp, pos)
    THEN [res |-> PanicResult(pos), pos |-> pos]
    ELSE
      LET slice == str_from(inp, pos)
          matched == exec(slice)
          li == pos + matched.mlen
      IN  IF matched.branch = "Unknown"
          THEN [res |-> ErrResult("UnexpectedCharacter",
                                  str_to(slice, matched.mlen),
                                  li - matched.mlen, li),
                pos |-> li]
          ELSE
            LET text == token_text(slice, matched)
            IN  IF is_comment(cats, text)
                THEN LET resume == comment_resume(slice, li)
                     IN  IF resume # {}
                         THEN lex(inp, CHOOSE r \in resume : TRUE, cats, verdict)
                         ELSE IF report_nonstrict(verdict)
                         THEN [res |-> [ErrResult("StrictModeError", <<>>,
                                                  str_len(inp), str_len(inp))
                                        EXCEPT !.report = verdict],
                               pos |-> str_len(inp)]
                         ELSE LET r == lex(inp, str_len(inp), cats, verdict)
                              IN  [r EXCEPT !.res.report = verdict]
                ELSE [res |-> OkToken(text, li - matched.mlen, li), pos |-> li]

\* Lexer::new: the category codes of a fresh lexer
new_catcodes == [c \in {37, 126} |-> IF c = 37 THEN 14 ELSE 13]

\* set_catcode replacing the whole map by the one entry
set_catcode_alone(cats, ch, code) == [c \in {ch} |-> code]

\* Lexer::set_catcode
set_catcode(cats, ch, code) ==
    [c \in DOMAIN cats \cup {ch} |-> IF c = ch THEN code ELSE cats[c]]

---------------------------------------------------------------------------
(* Inputs. *)

\* all concatenations of at most n pieces
RECURSIVE Concats(_, _)
Concats(pieces, n) ==
    IF n = 0 THEN {<<>>}
    ELSE LET shorter == Concats(pieces, n - 1)
         IN  shorter \cup {s \o p : s \in shorter, p \in pieces}

\* backslash, space, newline, '%', 'a', e-acute (2 bytes), combining acute
\* (2 bytes), line separator U+2028 (3 bytes, outside the allow-list)
MainPieces ==
    {<<92>>, <<32>>, <<10>>, <<37>>, <<97>>, <<233>>, <<769>>, <<8232>>}

\* the pieces of Spec, where the category codes change: backslash, space,
\* newline, '%', 'a', e-acute
CatPieces == {<<92>>, <<32>>, <<10>>, <<37>>, <<97>>, <<233>>}

\* "\verb", backslash, '*', '|', 'a', newline
VerbPieces == {<<92>> \o VerbName, <<92>>, <<42>>, <<124>>, <<97>>, <<10>>}

\* the (character, code) pairs set_catcode is called with
CatcodeChoices == {<<32, 14>>, <<32, 12>>, <<233, 14>>}

NoMark == [set |-> FALSE, pos |-> 0, cats |-> new_catcodes,
           res |-> NoResult, after |-> 0, rewound |-> FALSE, from |-> 0]

---------------------------------------------------------------------------
(* The expander and the parser while only the lexer is exercised. *)

\* an expander token: a name, and the no_expand flag of Token
ExpToken(name, no_expand) == [name |-> name, no_expand |-> no_expand]

NoToken == ExpToken("", FALSE)

NoMacros == [n \in {} |-> <<>>]

NoExpander ==
    /\ stack = <<>>
    /\ macros = NoMacros
    /\ max_expand = 0
    /\ expansion_count = 0
    /\ exp_state = "idle"
    /\ yielded = NoToken
    /\ source = <<>>
    /\ emitted = <<>>

\* a ParseError: its kind and up to two fields
PErr(kind, a, b) == [kind |-> kind, a |-> a, b |-> b]

NoError == PErr("none", "", "")

NoParser ==
    /\ tokens = <<>>
    /\ ptr = 1
    /\ frames = <<>>
    /\ perr = NoError
    /\ pdone = FALSE

\* no Token exists
NoTokens ==
    /\ token_values = <<>>
    /\ tok_op = [name |-> "none", taken |-> {}]

\* no units function has been called
NoUnits ==
    /\ measurement = [number |-> 0, unit |-> ""]
    /\ options = {}
    /\ text_options = {}
    /\ size_out = {}
    /\ em_n = 0
    /\ em_out = {}
    /\ units_op = "none"

\* no mclass function has been called
NoTree ==
    /\ func_name = ""
    /\ args = <<>>
    /\ parser_mode = "math"
    /\ call_loc = {}
    /\ parsed = {}
    /\ inner = <<>>
    /\ built = {}
    /\ tree_op = "none"

\* no Options has been built
NoDerive ==
    /\ contexts = <<>>
    /\ ctx_op = [name |-> "none", from |-> 0]

\* no ClassList has been built
NoClasses ==
    /\ class_list = [variant |-> "Empty", items |-> <<>>]
    /\ class_op = [name |-> "none", index |-> 0, out |-> {}]

\* the screenshot runner has not been started
NoRunner ==
    /\ attempts = 0
    /\ allow_js_fallback = FALSE
    /\ concurrency_limit = 0
    /\ case_states = <<>>
    /\ queue = <<>>
    /\ compare_tasks = <<>>
    /\ fallback_tasks = <<>>
    /\ failures = <<>>
    /\ run_state = "none"

NoRest == NoTree /\ NoDerive /\ NoClasses /\ NoRunner

NoValues == NoTokens /\ NoUnits /\ NoRest

---------------------------------------------------------------------------
(* The Lexer as a state machine. *)

InitLexer(inputs) ==
    /\ input \in inputs
    /\ last_index = 0
    /\ catcodes = new_catcodes
    /\ policy = "unknown"
    /\ op = "new"
    /\ before = 0
    /\ result = NoResult
    /\ fresh = TRUE
    /\ calls = 0
    /\ reachedEnd = FALSE
    /\ mark = NoMark

\* the program is still running
Running == result.kind # "Panic"

IsEnd(res) == res.kind # "Token" \/ res.text = EofText

\* lex(): the policy of the lexer's Settings is fixed, and learnt when lex
\* first consults it
LexCall ==
    /\ Running
    /\ \E verdict \in (IF policy = "unknown" THEN Verdicts ELSE {policy}) :
         LET r == lex(input, last_index, catcodes, verdict)
         IN  /\ result' = r.res
             /\ last_index' = r.pos
             /\ reachedEnd' = (fresh /\ (reachedEnd \/ IsEnd(r.res)))
             /\ policy' = IF r.res.report # "none" THEN verdict ELSE policy
    /\ op' = "lex"
    /\ before' = last_index
    /\ calls' = IF fresh /\ ~reachedEnd THEN calls + 1 ELSE calls
    /\ UNCHANGED <<input, catcodes, fresh>>

\* set_catcode(ch, code)
SetCatcodeCall(ch, code) ==
    /\ Running
    /\ catcodes' = set_catcode(catcodes, ch, code)
    /\ op' = "set_catcode"
    /\ before' = last_index
    /\ result' = NoResult
    /\ fresh' = FALSE /\ calls' = 0 /\ reachedEnd' = FALSE
    /\ UNCHANGED <<input, last_index, policy>>

\* set_position(p) landing one byte past p
SetPositionCallPast(p) ==
    /\ Running
    /\ last_index' = p + 1
    /\ op' = "set_position"
    /\ before' = p
    /\ result' = NoResult
    /\ fresh' = FALSE /\ calls' = 0 /\ reachedEnd' = FALSE
    /\ UNCHANGED <<input, catcodes, policy>>

\* set_position(p)
SetPositionCall(p) ==
    /\ Running
    /\ last_index' = p
    /\ op' = "set_position"
    /\ before' = p
    /\ result' = NoResult
    /\ fresh' = FALSE /\ calls' = 0 /\ reachedEnd' = FALSE
    /\ UNCHANGED <<input, catcodes, policy>>

Lex == LexCall /\ UNCHANGED <<mark, expanderVars, parserVars, valueVars>>

SetCatcode ==
    /\ \E c \in CatcodeChoices : SetCatcodeCall(c[1], c[2])
    /\ UNCHANGED <<mark, expanderVars, parserVars, valueVars>>

\* set_position to any offset up to one past the end of the input
SetPosition ==
    /\ \E p \in 0..(str_len(input) + 1) : SetPositionCall(p)
    /\ UNCHANGED <<mark, expanderVars, parserVars, valueVars>>

\* The lexer under every operation.
Init ==
    /\ InitLexer(Concats(CatPieces, MaxCatPieces))
    /\ NoExpander /\ NoParser /\ NoValues

Next == Lex \/ SetCatcode \/ SetPosition

Spec == Init /\ [][Next]_vars

\* The lexer with the category codes of Lexer::new: lexing and backtracking.
ScanInit ==
    /\ InitLexer(Concats(MainPieces, MaxPieces))
    /\ NoExpander /\ NoParser /\ NoValues

ScanNext == Lex \/ SetPosition

ScanSpec == ScanInit /\ [][ScanNext]_vars

\* A fresh lexer over inputs that hold \verb.
VerbInit ==
    /\ InitLexer(Concats(VerbPieces, MaxVerbPieces))
    /\ NoExpander /\ NoParser /\ NoValues

VerbNext == Lex

VerbSpec == VerbInit /\ [][VerbNext]_vars

\* Lookahead: a caller reads position(), lexes ahead (here also changing
\* category codes), and sets the lexer back with set_position.
LexAhead ==
    /\ LexCall
    /\ \E remember \in BOOLEAN :
         mark' = IF remember /\ ~mark.set
                 THEN [set |-> TRUE, pos |-> last_index, cats |-> catcodes,
                       res |-> result', after |-> last_index',
                       rewound |-> FALSE, from |-> 0]
                 ELSE mark
    /\ UNCHANGED <<expanderVars, parserVars, valueVars>>

Backtrack ==
    /\ mark.set
    /\ SetPositionCall(mark.pos)
    /\ mark' = [mark EXCEPT !.rewound = TRUE, !.from = last_index]
    /\ UNCHANGED <<expanderVars, parserVars, valueVars>>

BacktrackInit ==
    /\ InitLexer(Concats(CatPieces, MaxMarkPieces))
    /\ NoExpander /\ NoParser /\ NoValues

BacktrackNext == LexAhead \/ SetCatcode \/ Backtrack

BacktrackSpec == BacktrackInit /\ [][BacktrackNext]_vars

\* The lexer over runs of whitespace, with the category code of the space
\* changing: space, tab, CR, newline, backslash, 'a'.
SpacePieces == {<<32>>, <<9>>, <<13>>, <<10>>, <<92>>, <<97>>}

SpaceInit ==
    /\ InitLexer(Concats(SpacePieces, MaxSpacePieces))
    /\ NoExpander /\ NoParser /\ NoValues

SpaceNext == Lex \/ SetCatcode

SpaceSpec == SpaceInit /\ [][SpaceNext]_vars

---------------------------------------------------------------------------
(* The MacroExpander: string macros over a stack of pending tokens. *)

\* the tokens of the input stream: a symbol, the control sequences \a and \b,
\* and \a marked no_expand
ExpInputTokens ==
    {ExpToken("x", FALSE), ExpToken("\\a", FALSE), ExpToken("\\b", FALSE),
     ExpToken("\\a", TRUE)}

\* the replacement texts a macro is bound to, re-tokenized: empty, a symbol,
\* a macro alone (direct or mutual recursion), a macro in front of more text,
\* and a text that doubles
MacroBodies ==
    {<<>>, <<"x">>, <<"\\a">>, <<"\\b">>, <<"\\a", "x">>, <<"\\b", "\\b">>}

\* the macro tables: each of \a and \b unbound or bound to a body
MacroTables ==
    UNION {[names -> MacroBodies] : names \in SUBSET {"\\a", "\\b"}}

\* the token is a control sequence bound in the macro table and not marked
\* no_expand
expandable(table, tok) == tok.name \in DOMAIN table /\ ~tok.no_expand

\* the tokens of a replacement text
retokenize(body) == [i \in 1..Len(body) |-> ExpToken(body[i], FALSE)]

\* the expansion guard: the count has passed max_expand
too_many_expansions(count, limit) == count > limit

ExpRunning == exp_state = "expanding"

\* the caller asks for the next expanded token
Pull ==
    /\ exp_state \in {"idle", "returned"}
    /\ yielded.name # "EOF"
    /\ exp_state' = "expanding"
    /\ UNCHANGED <<stack, macros, max_expand, expansion_count, yielded>>
    /\ UNCHANGED <<source, emitted, lexerVars, parserVars, valueVars>>

\* ExpandOnce that stops expanding at the limit without reporting it
ExpandOnceSilent ==
    /\ ExpRunning
    /\ stack # <<>> /\ expandable(macros, Head(stack))
    /\ ~too_many_expansions(expansion_count + 1, max_expand)
    /\ expansion_count' = expansion_count + 1
    /\ stack' = retokenize(macros[Head(stack).name]) \o Tail(stack)
    /\ UNCHANGED <<exp_state, macros, max_expand, yielded>>
    /\ UNCHANGED <<source, emitted, lexerVars, parserVars, valueVars>>

\* one expansion: the macro on top of the stack is replaced by its
\* replacement text, or the expansion limit is reported
ExpandOnce ==
    /\ ExpRunning
    /\ stack # <<>> /\ expandable(macros, Head(stack))
    /\ expansion_count' = expansion_count + 1
    /\ IF too_many_expansions(expansion_count + 1, max_expand)
       THEN exp_state' = "failed" /\ UNCHANGED stack
       ELSE /\ stack' = retokenize(macros[Head(stack).name]) \o Tail(stack)
            /\ UNCHANGED exp_state
    /\ UNCHANGED <<macros, max_expand, yielded>>
    /\ UNCHANGED <<source, emitted, lexerVars, parserVars, valueVars>>

\* the token on top is not expandable: it is returned; an empty stack
\* returns the lexer's EOF
Yield ==
    /\ ExpRunning
    /\ IF stack = <<>> THEN TRUE ELSE ~expandable(macros, Head(stack))
    /\ yielded' = IF stack = <<>> THEN ExpToken("EOF", FALSE) ELSE Head(stack)
    /\ stack' = IF stack = <<>> THEN <<>> ELSE Tail(stack)
    /\ emitted' = IF stack = <<>> THEN emitted ELSE Append(emitted, Head(stack))
    /\ exp_state' = "returned"
    /\ UNCHANGED <<macros, max_expand, expansion_count>>
    /\ UNCHANGED <<source, lexerVars, parserVars, valueVars>>

RECURSIVE SeqsUpTo(_, _)
SeqsUpTo(S, n) ==
    IF n = 0 THEN {<<>>}
    ELSE LET shorter == SeqsUpTo(S, n - 1)
         IN  shorter \cup {Append(q, e) : q \in shorter, e \in S}

ExpandInit ==
    /\ InitLexer({<<>>}) /\ NoParser /\ NoValues
    /\ stack \in SeqsUpTo(ExpInputTokens, MaxInputTokens)
    /\ source = stack
    /\ emitted = <<>>
    /\ macros \in MacroTables
    /\ max_expand \in 0..MaxExpandLimit
    /\ expansion_count = 0
    /\ exp_state = "idle"
    /\ yielded = NoToken

ExpandNext == Pull \/ ExpandOnce \/ Yield

\* A pull runs to its end: the expander is a synchronous loop.
ExpandSpec ==
    /\ ExpandInit /\ [][ExpandNext]_vars
    /\ WF_vars(ExpandOnce) /\ WF_vars(Yield)

---------------------------------------------------------------------------
(* The Parser: recursive descent over the expanded tokens, its call stack    *)
(* kept as frames.  \begin{X} and \end{X} are one token each, carrying the  *)
(* environment name.                                                        *)

Tok(text, env) == [text |-> text, env |-> env]

Sym == Tok("1", "")
Caret == Tok("^", "")
Underscore == Tok("_", "")
Prime == Tok("'", "")
LBrace == Tok("{", "")
RBrace == Tok("}", "")
LBrack == Tok("[", "")
RBrack == Tok("]", "")
Sqrt == Tok("\\sqrt", "")
TextColor == Tok("\\textcolor", "")
Begin(env) == Tok("\\begin", env)
End(env) == Tok("\\end", env)
EofTok == Tok("EOF", "")

\* the registered environments
Environments == {"pmatrix", "bmatrix"}

\* an expression being parsed, up to its closer: "EOF" for the whole input,
\* "}" for a group, "\end" for the body of environment env; sup and sub tell
\* whether the current base already has a superscript / a subscript
ExprFrame(closer, env) ==
    [kind |-> "expr", closer |-> closer, env |-> env,
     sup |-> FALSE, sub |-> FALSE, role |-> ""]

\* one argument group awaited: of '^' ("sup"), of '_' ("sub"), or of a
\* function ("fn")
ArgFrame(role) ==
    [kind |-> "arg", closer |-> "", env |-> "",
     sup |-> FALSE, sub |-> FALSE, role |-> role]

\* an optional bracket argument ("opt", closer "]") or a special argument
\* read raw ("special", closer "}") to be scanned
ScanFrame(kind, closer) ==
    [kind |-> kind, closer |-> closer, env |-> "",
     sup |-> FALSE, sub |-> FALSE, role |-> ""]

\* the next token
fetch == IF ptr <= Len(tokens) THEN tokens[ptr] ELSE EofTok

Top == frames[Len(frames)]

Pop(fs) == SubSeq(fs, 1, Len(fs) - 1)

\* a group has been parsed under the frames fs: in an expression it is a new
\* base, without scripts; as the argument of '^' or '_' it becomes the
\* script of the base below; as the argument of a function it completes the
\* function, which is itself a group parsed under the frames below
RECURSIVE complete(_)
complete(fs) ==
    LET top == fs[Len(fs)]
    IN  IF top.kind = "expr"
        THEN [fs EXCEPT ![Len(fs)].sup = FALSE, ![Len(fs)].sub = FALSE]
        ELSE IF top.role = "fn" THEN complete(Pop(fs))
        ELSE IF top.role = "sup"
        THEN [Pop(fs) EXCEPT ![Len(fs) - 1].sup = TRUE]
        ELSE [Pop(fs) EXCEPT ![Len(fs) - 1].sub = TRUE]

\* scanning a raw argument from index i at brace depth `depth`: the index of
\* the closer met at depth 0, or 0 when the input ends or a '}' mismatches
\* first
RECURSIVE scan_argument(_, _, _, _)
scan_argument(toks, i, depth, closer) ==
    IF i > Len(toks) THEN 0
    ELSE IF toks[i].text = closer /\ depth = 0 THEN i
    ELSE IF toks[i].text = "{" THEN scan_argument(toks, i + 1, depth + 1, closer)
    ELSE IF toks[i].text = "}"
    THEN IF depth = 0 THEN 0
         ELSE scan_argument(toks, i + 1, depth - 1, closer)
    ELSE scan_argument(toks, i + 1, depth, closer)

\* the tokens that end an expression
EndOfExpression == {"}", "\\end", "EOF"}

\* the tokens that are a symbol in math mode
Symbols == {"1", "[", "]"}

Functions == {"\\sqrt", "\\textcolor"}

\* registered, with every name taken for an environment
registered_any(env) == env \in {env}

registered(env) == env \in Environments

Parsing == frames # <<>> /\ perr = NoError /\ ~pdone

GroupAwaited == Parsing /\ Top.kind \in {"expr", "arg"}

\* a symbol is a group of its own
ParseSymbol ==
    /\ GroupAwaited
    /\ fetch.text \in Symbols
    /\ ptr' = ptr + 1
    /\ frames' = complete(frames)
    /\ UNCHANGED <<tokens, perr, pdone, lexerVars, expanderVars,
                 valueVars>>

\* '{' opens a group: the expression inside runs up to '}'
OpenGroup ==
    /\ GroupAwaited
    /\ fetch.text = "{"
    /\ ptr' = ptr + 1
    /\ frames' = Append(frames, ExprFrame("}", ""))
    /\ UNCHANGED <<tokens, perr, pdone, lexerVars, expanderVars,
                 valueVars>>

\* the '}' the group expects
CloseGroup ==
    /\ Parsing
    /\ Top.kind = "expr" /\ Top.closer = "}"
    /\ fetch.text = "}"
    /\ ptr' = ptr + 1
    /\ frames' = complete(Pop(frames))
    /\ UNCHANGED <<tokens, perr, pdone, lexerVars, expanderVars,
                 valueVars>>

\* WrongCloser that takes the end of the input for the closer of a group
WrongCloserLenient ==
    /\ Parsing
    /\ Top.kind = "expr"
    /\ fetch.text \in EndOfExpression /\ fetch.text # Top.closer
    /\ IF Top.closer = "}" /\ fetch.text = "EOF"
       THEN frames' = complete(Pop(frames)) /\ UNCHANGED perr
       ELSE perr' = PErr("ExpectedToken", Top.closer, fetch.text)
            /\ UNCHANGED frames
    /\ UNCHANGED <<tokens, ptr, pdone, lexerVars, expanderVars,
                 valueVars>>

\* the expression ended at a token that is not the closer expected
WrongCloser ==
    /\ Parsing
    /\ Top.kind = "expr"
    /\ fetch.text \in EndOfExpression /\ fetch.text # Top.closer
    /\ perr' = PErr("ExpectedToken", Top.closer, fetch.text)
    /\ UNCHANGED <<tokens, ptr, frames, pdone, lexerVars, expanderVars,
                 valueVars>>

\* the whole input has been parsed
Finish ==
    /\ Parsing
    /\ Top.kind = "expr" /\ Top.closer = "EOF"
    /\ fetch.text = "EOF"
    /\ pdone' = TRUE
    /\ UNCHANGED <<tokens, ptr, frames, perr, lexerVars, expanderVars,
                 valueVars>>

\* the token just consumed was a prime.  The specification does not say
\* whether a prime, or a '^', directly after a prime continues the
\* superscript the primes began or is a second one: both are allowed here.
AfterPrime == ptr > 1 /\ tokens[ptr - 1].text = "'"

\* '^' after a base: a second superscript is rejected
Superscript ==
    /\ Parsing
    /\ Top.kind = "expr"
    /\ fetch.text = "^"
    /\ \/ /\ Top.sup
          /\ perr' = PErr("DoubleSuperscript", "", "")
          /\ UNCHANGED <<ptr, frames>>
       \/ /\ ~Top.sup \/ AfterPrime
          /\ ptr' = ptr + 1
          /\ frames' = Append(frames, ArgFrame("sup"))
          /\ UNCHANGED perr
    /\ UNCHANGED <<tokens, pdone, lexerVars, expanderVars,
                 valueVars>>

\* '_' after a base: a second subscript is rejected
Subscript ==
    /\ Parsing
    /\ Top.kind = "expr"
    /\ fetch.text = "_"
    /\ IF Top.sub
       THEN perr' = PErr("DoubleSubscript", "", "") /\ UNCHANGED <<ptr, frames>>
       ELSE /\ ptr' = ptr + 1
            /\ frames' = Append(frames, ArgFrame("sub"))
            /\ UNCHANGED perr
    /\ UNCHANGED <<tokens, pdone, lexerVars, expanderVars,
                 valueVars>>

\* PrimeMark that attaches the prime whatever the base already has
PrimeMarkUnchecked ==
    /\ Parsing
    /\ Top.kind = "expr"
    /\ fetch.text = "'"
    /\ ptr' = ptr + 1
    /\ frames' = [frames EXCEPT ![Len(frames)].sup = TRUE]
    /\ UNCHANGED <<tokens, perr, pdone, lexerVars, expanderVars,
                 valueVars>>

\* a prime after a base is a superscript
PrimeMark ==
    /\ Parsing
    /\ Top.kind = "expr"
    /\ fetch.text = "'"
    /\ \/ /\ Top.sup
          /\ perr' = PErr("DoubleSuperscript", "", "")
          /\ UNCHANGED <<ptr, frames>>
       \/ /\ ~Top.sup \/ AfterPrime
          /\ ptr' = ptr + 1
          /\ frames' = [frames EXCEPT ![Len(frames)].sup = TRUE]
          /\ UNCHANGED perr
    /\ UNCHANGED <<tokens, pdone, lexerVars, expanderVars,
                 valueVars>>

\* an argument is awaited and the next token starts no group
MissingGroup ==
    /\ Parsing
    /\ Top.kind = "arg"
    /\ fetch.text \in EndOfExpression \cup {"^", "_", "'"}
    /\ perr' = IF Top.role = "fn"
               THEN PErr("ExpectedGroupAs", "argument", "")
               ELSE PErr("ExpectedGroupAfterSymbol", fetch.text, "")
    /\ UNCHANGED <<tokens, ptr, frames, pdone, lexerVars, expanderVars,
                 valueVars>>

\* a function: \sqrt takes an optional bracket argument and a group,
\* \textcolor a special (color) argument and a group
CallFunction ==
    /\ GroupAwaited
    /\ fetch.text \in Functions
    /\ ptr' = ptr + 1
    /\ frames' = frames \o <<ArgFrame("fn"),
                              IF fetch.text = "\\sqrt"
                              THEN ScanFrame("opt", "]")
                              ELSE ScanFrame("special", "}")>>
    /\ UNCHANGED <<tokens, perr, pdone, lexerVars, expanderVars,
                 valueVars>>

\* the optional or special argument is scanned raw up to its closer
ScanArgument ==
    /\ Parsing
    /\ Top.kind \in {"opt", "special"}
    /\ LET opener == IF Top.kind = "opt" THEN "[" ELSE "{"
           j == scan_argument(tokens, ptr + 1, 0, Top.closer)
       IN  IF fetch.text = opener
           THEN IF j = 0
                THEN /\ perr' = PErr("UnexpectedEndOfMacroArgument",
                                     Top.closer, "")
                     /\ UNCHANGED <<ptr, frames>>
                ELSE /\ ptr' = j + 1
                     /\ frames' = Pop(frames)
                     /\ UNCHANGED perr
           ELSE IF Top.kind = "opt"
           THEN frames' = Pop(frames) /\ UNCHANGED <<ptr, perr>>
           ELSE /\ perr' = IF fetch.text = "EOF"
                           THEN PErr("ExpectedGroupAs", "argument", "")
                           ELSE PErr("InvalidColor", fetch.text, "")
                /\ UNCHANGED <<ptr, frames>>
    /\ UNCHANGED <<tokens, pdone, lexerVars, expanderVars,
                 valueVars>>

\* \begin{X}: X must be a registered environment; its body runs up to \end
BeginEnvironment ==
    /\ GroupAwaited
    /\ fetch.text = "\\begin"
    /\ IF registered(fetch.env)
       THEN /\ ptr' = ptr + 1
            /\ frames' = Append(frames, ExprFrame("\\end", fetch.env))
            /\ UNCHANGED perr
       ELSE /\ perr' = PErr("NoSuchEnvironment", fetch.env, "")
            /\ UNCHANGED <<ptr, frames>>
    /\ UNCHANGED <<tokens, pdone, lexerVars, expanderVars,
                 valueVars>>

\* \end{Y} closing the body of \begin{X}: Y must be X
EndEnvironment ==
    /\ Parsing
    /\ Top.kind = "expr" /\ Top.closer = "\\end"
    /\ fetch.text = "\\end"
    /\ IF fetch.env = Top.env
       THEN /\ ptr' = ptr + 1
            /\ frames' = complete(Pop(frames))
            /\ UNCHANGED perr
       ELSE /\ perr' = PErr("MismatchedEnvironmentEnd", Top.env, fetch.env)
            /\ UNCHANGED <<ptr, frames>>
    /\ UNCHANGED <<tokens, pdone, lexerVars, expanderVars,
                 valueVars>>

InitParser(inputs) ==
    /\ InitLexer({<<>>}) /\ NoExpander /\ NoValues
    /\ tokens \in inputs
    /\ ptr = 1
    /\ frames = <<ExprFrame("EOF", "")>>
    /\ perr = NoError
    /\ pdone = FALSE

\* a base, the three script marks, scripts with their argument
SupSubPieces ==
    {<<Sym>>, <<Caret>>, <<Underscore>>, <<Prime>>, <<Caret, Sym>>,
     <<Underscore, Sym>>, <<LBrace, Sym, RBrace>>}

SupSubInit == InitParser(Concats(SupSubPieces, MaxSupSubPieces))

SupSubNext ==
    \/ ParseSymbol \/ OpenGroup \/ CloseGroup \/ Finish
    \/ Superscript \/ Subscript \/ PrimeMark \/ MissingGroup

SupSubSpec == SupSubInit /\ [][SupSubNext]_vars

EnvPieces ==
    {<<Sym>>, <<LBrace>>, <<RBrace>>, <<Begin("pmatrix")>>, <<Begin("foo")>>,
     <<End("pmatrix")>>, <<End("bmatrix")>>}

EnvInit == InitParser(Concats(EnvPieces, MaxEnvPieces))

EnvNext ==
    \/ ParseSymbol \/ OpenGroup \/ CloseGroup \/ WrongCloser \/ Finish
    \/ BeginEnvironment \/ EndEnvironment

EnvSpec == EnvInit /\ [][EnvNext]_vars

GroupPieces ==
    {<<Sym>>, <<LBrace>>, <<RBrace>>, <<LBrack>>, <<RBrack>>, <<Sqrt>>,
     <<TextColor>>, <<End("pmatrix")>>, <<LBrace, Sym, RBrace>>}

GroupInit == InitParser(Concats(GroupPieces, MaxGroupPieces))

GroupNext ==
    \/ ParseSymbol \/ OpenGroup \/ CloseGroup \/ WrongCloser \/ Finish
    \/ MissingGroup \/ CallFunction \/ ScanArgument

GroupSpec == GroupInit /\ [][GroupNext]_vars

---------------------------------------------------------------------------
(* Token values (crates/katex/src/types/tokens.rs). *)

\* a TokenText: the variant that holds the string, and the string
TokenText(variant, str) == [variant |-> variant, str |-> str]

\* TokenText::as_str
as_str(text) == text.str

\* text.into(): a String becomes Owned, a &'static str becomes Static
TextArgs ==
    {TokenText(variant, str) :
        variant \in {"Owned", "Static"}, str \in {<<97>>, <<98>>}}

\* a SourceLocation, by its byte range
SourceLocation(start, end) == [start |-> start, end |-> end]

Locs == {{}, {SourceLocation(0, 1)}, {SourceLocation(1, 2)}}

\* SourceLocation::range: the span from the first location to the second,
\* or None; every outcome it may have
SourceLocation_range(first, second) ==
    IF first = {} \/ second = {} THEN {{}}
    ELSE {{}} \cup
         {{SourceLocation(a.start, b.end)} : a \in first, b \in second}

\* Token::new
Token(text, loc) ==
    [text |-> text, loc |-> loc, noexpand |-> {}, treat_as_relax |-> {}]

\* Token::text
text_of(token) == as_str(token.text)

\* Token::set_text: assigns the text of the token it is called on
set_text(token, text) == [token EXCEPT !.text = text]

\* Token::range: the tokens it may return, None when the locations have
\* no range
range(self, end_token, text) ==
    {IF loc = {} THEN {} ELSE {Token(text, loc)} :
        loc \in SourceLocation_range(self.loc, end_token.loc)}

\* the Token in a slot that still holds one
TheToken(slot) == CHOOSE token \in slot : TRUE

Alive == {i \in DOMAIN token_values : token_values[i] # {}}

TokenOp(name, taken) == [name |-> name, taken |-> taken]

TokenNew ==
    /\ Len(token_values) < MaxTokens
    /\ \E text \in TextArgs, loc \in Locs :
        token_values' = Append(token_values, {Token(text, loc)})
    /\ tok_op' = TokenOp("new", {})
    /\ UNCHANGED <<lexerVars, expanderVars, parserVars, unitsVars, restVars>>

\* #[derive(Clone)]
TokenClone ==
    /\ Len(token_values) < MaxTokens
    /\ \E i \in Alive :
        /\ token_values' = Append(token_values, token_values[i])
        /\ tok_op' = TokenOp("clone", {i})
    /\ UNCHANGED <<lexerVars, expanderVars, parserVars, unitsVars, restVars>>

TokenSetText ==
    /\ \E i \in Alive, text \in TextArgs :
        /\ token_values' =
              [token_values EXCEPT
                 ![i] = {set_text(TheToken(token_values[i]), text)}]
        /\ tok_op' = TokenOp("set_text", {i})
    /\ UNCHANGED <<lexerVars, expanderVars, parserVars, unitsVars, restVars>>

\* range takes both tokens by value: neither is alive afterwards
TokenRange ==
    /\ Len(token_values) < MaxTokens
    /\ \E i \in Alive, j \in Alive, text \in TextArgs :
        /\ i # j
        /\ \E made \in range(TheToken(token_values[i]),
                              TheToken(token_values[j]), text) :
            token_values' =
              Append([token_values EXCEPT ![i] = {}, ![j] = {}], made)
        /\ tok_op' = TokenOp("range", {i, j})
    /\ UNCHANGED <<lexerVars, expanderVars, parserVars, unitsVars, restVars>>

TokenInit ==
    InitLexer({<<>>}) /\ NoExpander /\ NoParser /\ NoValues

TokenNext == TokenNew \/ TokenClone \/ TokenSetText \/ TokenRange

TokenSpec == TokenInit /\ [][TokenNext]_vars

---------------------------------------------------------------------------
(* Units (crates/katex/src/units.rs): calculate_size.  Its f64 values are   *)
(* rationals <<numerator, denominator>> in lowest terms with a positive     *)
(* denominator; <<1, 0>> is +infinity.                                      *)

RECURSIVE GCD(_, _)
GCD(a, b) == IF b = 0 THEN a ELSE GCD(b, a % b)

Abs(a) == IF a < 0 THEN -a ELSE a

Rat(num, den) ==
    LET g == GCD(Abs(num), Abs(den))
        sign == IF den < 0 THEN -1 ELSE 1
    IN  <<sign * (num \div g), sign * (den \div g)>>

Infinity == <<1, 0>>

\* a * b, a / b, a <= b and f64::min(a, b)
RMul(a, b) == Rat(a[1] * b[1], a[2] * b[2])

\* a / b computed as a * b
RDivAsProduct(a, b) == Rat(a[1] * b[1], a[2] * b[2])

RDiv(a, b) == Rat(a[1] * b[2], a[2] * b[1])

RLe(a, b) == a[1] * b[2] <= b[1] * a[2]

\* f64::min(a, b) without the bound
RFirst(a, b) == a

RMin(a, b) == IF RLe(a, b) THEN a ELSE b

RELATIVE_UNITS == {"ex", "em", "mu"}

\* PT_PER_UNIT without "px"
PT_PER_UNIT_no_px ==
    [u \in {"pt", "mm", "cm", "in", "bp", "pc", "dd", "cc", "nd", "nc",
            "sp"} |->
        CASE u = "pt" -> Rat(1, 1)
          [] u = "mm" -> Rat(7227, 2540)
          [] u = "cm" -> Rat(7227, 254)
          [] u = "in" -> Rat(7227, 100)
          [] u = "bp" -> Rat(803, 800)
          [] u = "pc" -> Rat(12, 1)
          [] u = "dd" -> Rat(1238, 1157)
          [] u = "cc" -> Rat(14856, 1157)
          [] u = "nd" -> Rat(685, 642)
          [] u = "nc" -> Rat(1370, 107)
          [] u = "sp" -> Rat(1, 65536)]

\* TeX points per unit, for the absolute units
PT_PER_UNIT ==
    [u \in {"pt", "mm", "cm", "in", "bp", "px", "pc", "dd", "cc", "nd", "nc",
            "sp"} |->
        CASE u = "pt" -> Rat(1, 1)
          [] u = "mm" -> Rat(7227, 2540)
          [] u = "cm" -> Rat(7227, 254)
          [] u = "in" -> Rat(7227, 100)
          [] u \in {"bp", "px"} -> Rat(803, 800)
          [] u = "pc" -> Rat(12, 1)
          [] u = "dd" -> Rat(1238, 1157)
          [] u = "cc" -> Rat(14856, 1157)
          [] u = "nd" -> Rat(685, 642)
          [] u = "nc" -> Rat(1370, 107)
          [] u = "sp" -> Rat(1, 65536)]

valid_unit_str(unit) ==
    unit \in DOMAIN PT_PER_UNIT \/ unit \in RELATIVE_UNITS

valid_unit(size) == valid_unit_str(size.unit)

\* a Measurement { number, unit }
Measurement(number, unit) == [number |-> number, unit |-> unit]

\* the fields of Options that calculate_size reads; a style is known here
\* by is_tight alone
Options(tight, size, size_multiplier, max_size) ==
    [style |-> [tight |-> tight], size |-> size,
     size_multiplier |-> size_multiplier, max_size |-> max_size]

is_tight(style) == style.tight

\* the font metrics of a size: three variants, for sizes from 5, from 3
\* and below
get_global_metrics(size) ==
    LET quad == IF size >= 5 THEN Rat(1000, 1000)
                ELSE IF size >= 3 THEN Rat(1171, 1000)
                ELSE Rat(1472, 1000)
    IN  [pt_per_em |-> Rat(10, 1), x_height |-> Rat(431, 1000),
         quad |-> quad, css_em_per_mu |-> RDiv(quad, Rat(18, 1))]

\* Result<f64, ParseError>
SizeOk(value) == [kind |-> "Ok", value |-> value, unit |-> ""]

InvalidUnit(unit) == [kind |-> "InvalidUnit", value |-> Rat(0, 1), unit |-> unit]

\* unit_options keeping the current Options under a tight style too
unit_options_current(opts, derived) == opts

\* the Options whose metrics "ex" and "em" are read from
unit_options(opts, derived) ==
    IF is_tight(opts.style) THEN derived ELSE opts

\* KatexContext::calculate_size; derived is what
\* options.having_style(options.style.text()) returns
calculate_size(size, opts, derived) ==
    IF size.unit \in DOMAIN PT_PER_UNIT
    THEN LET metrics == get_global_metrics(opts.size)
             scale == RDiv(RDiv(PT_PER_UNIT[size.unit], metrics.pt_per_em),
                           opts.size_multiplier)
         IN  SizeOk(RMin(RMul(size.number, scale), opts.max_size))
    ELSE IF size.unit = "mu"
    THEN LET metrics == get_global_metrics(opts.size)
             scale == metrics.css_em_per_mu
         IN  SizeOk(RMin(RMul(size.number, scale), opts.max_size))
    ELSE LET uo == unit_options(opts, derived)
             metrics == get_global_metrics(uo.size)
         IN  IF size.unit \notin {"ex", "em"} THEN InvalidUnit(size.unit)
             ELSE LET base == IF size.unit = "ex" THEN metrics.x_height
                              ELSE metrics.quad
                      ratio == RDiv(uo.size_multiplier, opts.size_multiplier)
                      scale == IF uo.size # opts.size
                               THEN RMul(base, ratio) ELSE base
                  IN  SizeOk(RMin(RMul(size.number, scale), opts.max_size))

\* the units calculate_size is called with: the fifteen of the tables, a
\* unit of no table, and the empty string
UnitStrings ==
    {"pt", "mm", "cm", "in", "bp", "px", "pc", "dd", "cc", "nd", "nc", "sp",
     "ex", "em", "mu", "au", ""}

Numbers == {Rat(k, 1) : k \in (-MaxNumber)..MaxNumber} \cup {Rat(10, 1)}

SizesUsed == {1, 3, 6}

MultipliersUsed == {Rat(1, 2), Rat(7, 10), Rat(1, 1)}

OptionsUsed ==
    {Options(tight, size, mult, max) :
        tight \in BOOLEAN, size \in SizesUsed, mult \in MultipliersUsed,
        max \in {Infinity, Rat(1, 1)}}

\* a having_style that builds a value of the style's size even for the
\* style the Options already has
having_style_resized(opts, tight) ==
    {Options(tight, size, mult, opts.max_size) :
        size \in SizesUsed, mult \in MultipliersUsed}

\* Options::having_style(style): the values it may return, of the style
\* asked for and with the max_size of the Options it is called on
having_style(opts, tight) ==
    IF tight = is_tight(opts.style) THEN {opts}
    ELSE {Options(tight, size, mult, opts.max_size) :
             size \in SizesUsed, mult \in MultipliersUsed}

CalculateSize ==
    /\ units_op = "none"
    /\ size_out' = {calculate_size(measurement,
                                   CHOOSE o \in options : TRUE,
                                   CHOOSE o \in text_options : TRUE)}
    /\ units_op' = "calculate_size"
    /\ UNCHANGED <<measurement, options, text_options, em_n, em_out>>
    /\ UNCHANGED <<lexerVars, expanderVars, parserVars, tokenVars, restVars>>

\* Style::text() of a tight style is a style that is not tight
UnitsInit ==
    /\ InitLexer({<<>>}) /\ NoExpander /\ NoParser /\ NoTokens /\ NoRest
    /\ measurement \in
         {Measurement(number, unit) :
             number \in Numbers, unit \in UnitStrings}
    /\ \E opts \in OptionsUsed :
         /\ options = {opts}
         /\ \E derived \in having_style(opts, FALSE) :
              text_options = {derived}
    /\ size_out = {}
    /\ em_n = 0
    /\ em_out = {}
    /\ units_op = "none"

UnitsNext == CalculateSize

UnitsSpec == UnitsInit /\ [][UnitsNext]_vars

---------------------------------------------------------------------------
(* Units: make_em.  Here an f64 is a binary floating-point number with      *)
(* MantissaBits significant bits: a sign and a magnitude <<num, k>> that    *)
(* stands for num / 2^k, or an infinity or NaN.  Every operation rounds its *)
(* exact result to the nearest representable value, ties to even.  An i64   *)
(* has I64Bits bits.                                                        *)

\* the number of bits of x: the least b with x < 2^b
BitLen(x) == CHOOSE b \in 0..30 : x < 2^b /\ (b = 0 \/ x >= 2^(b - 1))

\* x rounded to a multiple of 2^s, ties to even, as a multiple of 2^s
RoundShift(x, s) ==
    LET q == x \div 2^s
        r == x % 2^s
    IN  IF 2 * r > 2^s \/ (2 * r = 2^s /\ q % 2 = 1) THEN q + 1 ELSE q

\* the magnitude num / 2^k with no factor of two left to cancel
RECURSIVE Dyadic(_, _)
Dyadic(num, k) ==
    IF k > 0 /\ num % 2 = 0 THEN Dyadic(num \div 2, k - 1) ELSE <<num, k>>

\* the exact magnitude num / 2^k rounded to MantissaBits bits
RoundToPrecision(num, k) ==
    LET s == BitLen(num) - MantissaBits
    IN  IF s <= 0 THEN Dyadic(num, k)
        ELSE IF s >= k THEN <<RoundShift(num, s) * 2^(s - k), 0>>
        ELSE Dyadic(RoundShift(num, s), k - s)

\* a <= b, for magnitudes
f64_le(a, b) ==
    IF a[2] >= b[2] THEN a[1] <= b[1] * 2^(a[2] - b[2])
    ELSE a[1] * 2^(b[2] - a[2]) <= b[1]

\* a * b for a magnitude a and a whole number b
f64_mul(a, b) == RoundToPrecision(a[1] * b, a[2])

\* |a - b|, for magnitudes
f64_abs_diff(a, b) ==
    LET k == IF a[2] >= b[2] THEN a[2] ELSE b[2]
        x == a[1] * 2^(k - a[2])
        y == b[1] * 2^(k - b[2])
    IN  RoundToPrecision(IF x >= y THEN x - y ELSE y - x, k)

f64_floor(a) == <<a[1] \div 2^a[2], 0>>

f64_max(a, b) == IF f64_le(a, b) THEN b ELSE a

\* a / d for a whole number a = odd * 2^e and a whole number d: the
\* quotient to MantissaBits bits, ties to even
f64_div(a, d) ==
    LET e == CHOOSE i \in 0..30 : a % 2^i = 0 /\ a % 2^(i + 1) # 0
        odd == a \div 2^e
        t == CHOOSE i \in 0..30 :
                 /\ odd <= 2^30 \div 2^i
                 /\ (odd * 2^i) \div d >= 2^(MantissaBits - 1)
                 /\ (odd * 2^i) \div d < 2^MantissaBits
        q == (odd * 2^t) \div d
        r == (odd * 2^t) % d
        rounded == IF 2 * r > d \/ (2 * r = d /\ q % 2 = 1) THEN q + 1 ELSE q
    IN  IF t >= e THEN Dyadic(rounded, t - e) ELSE <<rounded * 2^(e - t), 0>>

\* f64::EPSILON
EPSILON == <<1, MantissaBits - 1>>

\* a * EPSILON: exact, a power of two
f64_times_epsilon(a) == <<a[1], a[2] + MantissaBits - 1>>

\* f64::round as i64, for a magnitude: ties away from zero
f64_round(a) ==
    LET q == a[1] \div 2^a[2]
        r == a[1] % 2^a[2]
    IN  IF 2 * r >= 2^a[2] THEN q + 1 ELSE q

Finite(neg, num, k) == [kind |-> "finite", neg |-> neg, mag |-> Dyadic(num, k)]

NotFinite(kind, neg) == [kind |-> kind, neg |-> neg, mag |-> <<0, 0>>]

is_finite(n) == n.kind = "finite"

PRECISION == 10000

I64_MAX == 2^(I64Bits - 1) - 1

\* i.to_string() for i >= 0
RECURSIVE int_to_string(_)
int_to_string(i) ==
    IF i < 10 THEN <<48 + i>>
    ELSE Append(int_to_string(i \div 10), 48 + (i % 10))

\* n.to_string() of an infinity or NaN: "inf", "-inf", "NaN"
to_string(n) ==
    IF n.kind = "nan" THEN <<78, 97, 78>>
    ELSE (IF n.neg THEN <<45>> ELSE <<>>) \o <<105, 110, 102>>

\* format!("{n:.4}") of a finite n: the exact value rounded to four decimal
\* places, ties to even, with the sign of n
format_fixed(n) ==
    LET fixed == RoundShift(n.mag[1] * PRECISION, n.mag[2])
        frac == fixed % PRECISION
    IN  (IF n.neg THEN <<45>> ELSE <<>>)
        \o int_to_string(fixed \div PRECISION)
        \o <<46, 48 + (frac \div 1000), 48 + ((frac \div 100) % 10),
             48 + ((frac \div 10) % 10), 48 + (frac % 10)>>

\* value without its trailing elements equal to c
RECURSIVE pop_while(_, _)
pop_while(value, c) ==
    IF value # <<>> /\ value[Len(value)] = c
    THEN pop_while(SubSeq(value, 1, Len(value) - 1), c)
    ELSE value

finalize_em(value) ==
    LET trimmed ==
          IF \E i \in 1..Len(value) : value[i] = 46
          THEN LET zeros == pop_while(value, 48)
               IN  IF zeros # <<>> /\ zeros[Len(zeros)] = 46
                   THEN SubSeq(zeros, 1, Len(zeros) - 1)
                   ELSE zeros
          ELSE value
        fixed == IF trimmed = <<45, 48>> \/ trimmed = <<>> THEN <<48>>
                 ELSE trimmed
    IN  fixed \o <<101, 109>>

\* the tie test of make_em that never sends n to the formatter
near_half_never(frac, scaled_abs) == FALSE

\* (frac - 0.5).abs() <= f64::EPSILON * scaled_abs.max(1.0)
near_half(frac, scaled_abs) ==
    f64_le(f64_abs_diff(frac, <<1, 1>>),
           f64_times_epsilon(f64_max(scaled_abs, <<1, 0>>)))

\* the digits of the fast path: frac_part without its trailing zeros, in a
\* buffer of `digits` places
RECURSIVE frac_digits(_, _)
frac_digits(frac_part, digits) ==
    IF digits > 0 /\ frac_part % 10 = 0
    THEN frac_digits(frac_part \div 10, digits - 1)
    ELSE [idx \in 1..digits |->
             48 + ((frac_part \div 10^(digits - idx)) % 10)]

\* (i64::MAX as f64) / (PRECISION as f64)
max_safe == f64_div(RoundToPrecision(I64_MAX, 0)[1], PRECISION)

make_em(n) ==
    IF ~is_finite(n) THEN finalize_em(to_string(n))
    ELSE IF f64_le(max_safe, n.mag) THEN finalize_em(format_fixed(n))
    ELSE
      LET scaled_abs == f64_mul(n.mag, PRECISION)
          frac == f64_abs_diff(scaled_abs, f64_floor(scaled_abs))
      IN  IF near_half(frac, scaled_abs) THEN finalize_em(format_fixed(n))
          ELSE
            LET scaled_int == f64_round(scaled_abs)
                int_part == scaled_int \div PRECISION
                frac_part == scaled_int % PRECISION
            IN  IF scaled_int = 0 THEN <<48, 101, 109>>
                ELSE (IF n.neg THEN <<45>> ELSE <<>>)
                     \o int_to_string(int_part)
                     \o (IF frac_part # 0
                         THEN <<46>> \o frac_digits(frac_part, 4)
                         ELSE <<>>)
                     \o <<101, 109>>

\* the reference of the tests: the formatter's four decimals, finalized
reference_make_em(n) == finalize_em(format_fixed(n))

\* the numbers make_em is called with: every num / 2^k of at most InputBits
\* bits and k <= MaxShift, in both signs, the infinities and NaN
FloatsUsed ==
    {Finite(neg, num, k) :
        neg \in BOOLEAN,
        num \in {i \in 0..(2^InputBits - 1) : i % 2 = 1},
        k \in 0..MaxShift}
    \cup {Finite(neg, num, 0) :
            neg \in BOOLEAN, num \in 0..(2^InputBits - 1)}
    \cup {NotFinite("inf", FALSE), NotFinite("inf", TRUE),
          NotFinite("nan", FALSE)}

MakeEm ==
    /\ units_op = "none"
    /\ em_out' = {make_em(em_n)}
    /\ units_op' = "make_em"
    /\ UNCHANGED <<measurement, options, text_options, size_out, em_n>>
    /\ UNCHANGED <<lexerVars, expanderVars, parserVars, tokenVars, restVars>>

EmInit ==
    /\ InitLexer({<<>>}) /\ NoExpander /\ NoParser /\ NoTokens /\ NoRest
    /\ measurement = [number |-> 0, unit |-> ""]
    /\ options = {}
    /\ text_options = {}
    /\ size_out = {}
    /\ em_n \in FloatsUsed
    /\ em_out = {}
    /\ units_op = "none"

EmNext == MakeEm

EmSpec == EmInit /\ [][EmNext]_vars

---------------------------------------------------------------------------
(* Options and its derivations, as the specification describes them: each  *)
(* derivation is called on a shared reference and returns a new Options.   *)

\* Options::having_size(size): the Options with the size and its multiplier
\* replaced
having_size(opts, size, size_multiplier) ==
    [opts EXCEPT !.size = size, !.size_multiplier = size_multiplier]

\* the contexts alive after a derivation on contexts[from] returned made
derived_from(ctxs, from, made) == Append(ctxs, made)

\* the sizes asked for, each with its multiplier
SizeSteps == {<<1, Rat(1, 2)>>, <<3, Rat(7, 10)>>, <<6, Rat(1, 1)>>}

\* the root contexts: both kinds of style at every size, no cap
RootOptions ==
    {Options(tight, to[1], to[2], Infinity) :
        tight \in BOOLEAN, to \in SizeSteps}

DeriveStyle ==
    /\ Len(contexts) < MaxContexts
    /\ \E from \in DOMAIN contexts, tight \in BOOLEAN :
        \E made \in having_style(contexts[from], tight) :
            /\ <<made.size, made.size_multiplier>> \in SizeSteps
            /\ contexts' = derived_from(contexts, from, made)
            /\ ctx_op' = [name |-> "having_style", from |-> from,
                          tight |-> tight]
    /\ UNCHANGED <<lexerVars, expanderVars, parserVars, tokenVars,
                   unitsVars, treeVars, classVars, runnerVars>>

DeriveSize ==
    /\ Len(contexts) < MaxContexts
    /\ \E from \in DOMAIN contexts, to \in SizeSteps :
        /\ contexts' = derived_from(contexts, from,
                                    having_size(contexts[from],
                                                to[1], to[2]))
        /\ ctx_op' = [name |-> "having_size", from |-> from]
    /\ UNCHANGED <<lexerVars, expanderVars, parserVars, tokenVars,
                   unitsVars, treeVars, classVars, runnerVars>>

\* calculate_size(&Measurement, &Options) on one of the contexts: 1em
MeasureIn ==
    /\ \E from \in DOMAIN contexts :
        \E text \in having_style(contexts[from], FALSE) :
            /\ <<text.size, text.size_multiplier>> \in SizeSteps
            /\ ctx_op' =
                 [name |-> "calculate_size", from |-> from,
                  out |-> calculate_size(Measurement(Rat(1, 1), "em"),
                                         contexts[from], text)]
    /\ UNCHANGED contexts
    /\ UNCHANGED <<lexerVars, expanderVars, parserVars, tokenVars,
                   unitsVars, treeVars, classVars, runnerVars>>

DeriveInit ==
    /\ InitLexer({<<>>}) /\ NoExpander /\ NoParser /\ NoTokens /\ NoUnits
    /\ NoTree /\ NoClasses /\ NoRunner
    /\ contexts \in {<<root>> : root \in RootOptions}
    /\ ctx_op = [name |-> "none", from |-> 0]

DeriveNext == DeriveStyle \/ DeriveSize \/ MeasureIn

DeriveSpec == DeriveInit /\ [][DeriveNext]_vars

---------------------------------------------------------------------------
(* functions/mclass.rs: the math class functions and their MathML builder. *)
(* ParseNode, DomType, MathNode and the helpers of define_function and     *)
(* build_mathml are described by the specification.                         *)

\* build_html::DomType, by the class name it stands for
Mord == "mord"
Mbin == "mbin"
Mrel == "mrel"
Mopen == "mopen"
Mclose == "mclose"
Mpunct == "mpunct"
Minner == "minner"

DomTypes == {Mord, Mbin, Mrel, Mopen, Mclose, Mpunct, Minner}

\* symbols::Atom
AtomFamilies == {"bin", "close", "inner", "open", "punct", "rel"}

\* AnyParseNode::Atom
AtomNode(family) == [type |-> "atom", mode |-> "math", family |-> family]

\* AnyParseNode::MathOrd, AnyParseNode::TextOrd
OrdNode(type, mode) == [type |-> type, mode |-> mode]

\* AnyParseNode::OrdGroup
OrdGroup(body) == [type |-> "ordgroup", mode |-> "math", body |-> body]

\* ParseNode::Op(ParseNodeOp::Body { .. })
ParseNodeOp(mode, loc, limits, always, suppress, parent, body) ==
    [type |-> "op", mode |-> mode, loc |-> loc, limits |-> limits,
     always_handle_sup_sub |-> always, suppress_base_shift |-> suppress,
     parent_is_sup_sub |-> parent, body |-> body]

\* ParseNode::SupSub(ParseNodeSupSub { .. })
ParseNodeSupSub(mode, loc, base, sup, sub) ==
    [type |-> "supsub", mode |-> mode, loc |-> loc, base |-> base,
     sup |-> sup, sub |-> sub]

\* ParseNode::Mclass(ParseNodeMclass { .. })
ParseNodeMclass(mode, loc, mclass, body, is_character_box) ==
    [type |-> "mclass", mode |-> mode, loc |-> loc, mclass |-> mclass,
     body |-> body, is_character_box |-> is_character_box]

\* binrel_class with the argument inspected as it is, groups not opened
binrel_class_of_arg(arg) ==
    IF arg.type = "atom"
    THEN CASE arg.family = "bin" -> Mbin
           [] arg.family = "rel" -> Mrel
           [] OTHER -> Mord
    ELSE Mord

\* binrel_class: the class of the atom in the argument
binrel_class(arg) ==
    LET atom == IF arg.type = "ordgroup" /\ arg.body # <<>>
                THEN arg.body[1]
                ELSE arg
    IN  IF atom.type = "atom"
        THEN CASE atom.family = "bin" -> Mbin
               [] atom.family = "rel" -> Mrel
               [] OTHER -> Mord
        ELSE Mord

\* define_function::ord_argument: the body of a group, or the node alone
ord_argument(arg) == IF arg.type = "ordgroup" THEN arg.body ELSE <<arg>>

\* ParseNode::is_character_box: the node, inside groups of one element, is
\* a single symbol
RECURSIVE is_character_box(_)
is_character_box(node) ==
    IF node.type = "ordgroup"
    THEN Len(node.body) = 1 /\ is_character_box(node.body[1])
    ELSE node.type \in {"mathord", "textord", "atom"}

math_class_names ==
    {"\\mathord", "\\mathbin", "\\mathrel", "\\mathopen", "\\mathclose",
     "\\mathpunct", "\\mathinner"}

stacked_names == {"\\stackrel", "\\overset", "\\underset"}

\* the handler of the math class commands
math_class_handler(name, mode, loc, a) ==
    LET body == a[1]
        mclass == CASE name = "\\mathbin" -> Mbin
                    [] name = "\\mathrel" -> Mrel
                    [] name = "\\mathopen" -> Mopen
                    [] name = "\\mathclose" -> Mclose
                    [] name = "\\mathpunct" -> Mpunct
                    [] name = "\\mathinner" -> Minner
                    [] OTHER -> Mord
    IN  ParseNodeMclass(mode, loc, mclass, ord_argument(body),
                        is_character_box(body))

\* the handler of \@binrel
binrel_handler(name, mode, loc, a) ==
    ParseNodeMclass(mode, loc, binrel_class(a[1]), ord_argument(a[2]),
                    is_character_box(a[2]))

\* the stacked handler with the shifted argument always on top
sup_always(name, shifted_arg) == {shifted_arg}

\* the superscript of the stacked handler's sup/sub node
sup_of(name, shifted_arg) ==
    IF name = "\\underset" THEN {} ELSE {shifted_arg}

\* the subscript of the stacked handler's sup/sub node
sub_of(name, shifted_arg) ==
    IF name = "\\underset" THEN {shifted_arg} ELSE {}

\* the handler of \stackrel, \overset and \underset
stacked_handler(name, mode, loc, a) ==
    LET base_arg == a[2]
        shifted_arg == a[1]
        mclass == IF name = "\\stackrel" THEN Mrel
                  ELSE binrel_class(base_arg)
        base_op == ParseNodeOp(base_arg.mode, loc, TRUE, {TRUE},
                               {name # "\\stackrel"}, FALSE,
                               ord_argument(base_arg))
        supsub == ParseNodeSupSub(shifted_arg.mode, loc, {base_op},
                                  sup_of(name, shifted_arg),
                                  sub_of(name, shifted_arg))
    IN  ParseNodeMclass(mode, loc, mclass, <<supsub>>,
                        is_character_box(supsub))

\* mathml_tree::MathNode, as MathDomNode::Math
MathNode(node_type, attributes, children) ==
    [variant |-> "math", node_type |-> node_type,
     attributes |-> attributes, children |-> children]

\* KeyMap::insert, a map being the set of its entries
KeyMap_insert(map, key, value) ==
    {e \in map : e[1] # key} \cup {<<key, value>>}

\* build_mathml::build_group: the node built for one parse node, a symbol
\* carrying the attributes its font gives it
RECURSIVE build_group(_, _)
build_group(node, symbol_attributes) ==
    CASE node.type = "atom" ->
           MathNode("mo", symbol_attributes, <<node.family>>)
      [] node.type = "mathord" ->
           MathNode("mi", symbol_attributes, <<"x">>)
      [] node.type = "textord" ->
           MathNode(IF node.mode = "text" THEN "mtext" ELSE "mn",
                    symbol_attributes, <<"1">>)
      [] node.type = "ordgroup" ->
           IF Len(node.body) = 1
           THEN build_group(node.body[1], symbol_attributes)
           ELSE MathNode("mrow", {},
                         [i \in 1..Len(node.body) |->
                             build_group(node.body[i], symbol_attributes)])
      [] OTHER ->
           MathNode(IF node.sub = {} THEN "mover" ELSE "munder", {}, <<>>)

\* build_mathml::build_expression
build_expression(body, symbol_attributes) ==
    [i \in 1..Len(body) |-> build_group(body[i], symbol_attributes)]

\* the attributes a symbol may carry when it is built
SymbolAttributes == {{}, {<<"mathvariant", "bold">>}}

\* the spacing attributes with the space of every other class written out
spacing_with_default(mclass) ==
    CASE mclass = Mbin ->
           KeyMap_insert(KeyMap_insert({}, "lspace", "0.22em"), "rspace", "0.22em")
      [] mclass \in {Mopen, Mclose} ->
           KeyMap_insert(KeyMap_insert({}, "lspace", "0em"), "rspace", "0em")
      [] mclass = Mpunct ->
           KeyMap_insert(KeyMap_insert({}, "lspace", "0em"), "rspace", "0.17em")
      [] mclass = Minner ->
           KeyMap_insert(KeyMap_insert({}, "lspace", "0.0556em"), "width", "+0.1111em")
      [] OTHER -> KeyMap_insert({}, "lspace", "0.2778em")

\* mathml_builder: the attributes of the match on the class
spacing(mclass) ==
    CASE mclass = Mbin ->
           KeyMap_insert(KeyMap_insert({}, "lspace", "0.22em"), "rspace", "0.22em")
      [] mclass \in {Mopen, Mclose} ->
           KeyMap_insert(KeyMap_insert({}, "lspace", "0em"), "rspace", "0em")
      [] mclass = Mpunct ->
           KeyMap_insert(KeyMap_insert({}, "lspace", "0em"), "rspace", "0.17em")
      [] mclass = Minner ->
           KeyMap_insert(KeyMap_insert({}, "lspace", "0.0556em"), "width", "+0.1111em")
      [] OTHER -> {}

\* the node of a class with the element: the first inner element of a
\* character box, a new element otherwise
class_node(mclass_node, node_type, inner_nodes) ==
    IF mclass_node.is_character_box
    THEN IF inner_nodes = <<>>
         THEN MathNode(node_type, {}, inner_nodes)
         ELSE inner_nodes[1]
    ELSE MathNode(node_type, {}, inner_nodes)

\* mathml_builder: Ok(node) or the error of a node that is no mclass
mathml_builder(node, inner_nodes) ==
    IF node.type # "mclass"
    THEN [ok |-> FALSE, kind |-> "ExpectedNode"]
    ELSE [ok |-> TRUE,
          node |->
            IF node.mclass = Minner
            THEN MathNode("mpadded", {}, inner_nodes)
            ELSE IF node.mclass = Mord
            THEN class_node(node, "mi", inner_nodes)
            ELSE LET made == class_node(node, "mo", inner_nodes)
                     attributes == spacing(node.mclass)
                 IN  IF made.variant = "math" /\ attributes # {}
                     THEN [made EXCEPT !.attributes = attributes]
                     ELSE made]

\* the symbols an argument is made of
Leaves ==
    {AtomNode(family) : family \in AtomFamilies}
    \cup {OrdNode("mathord", "math"), OrdNode("textord", "text")}

\* the elements of a group: symbols, the empty group and a group of one
GroupElements ==
    Leaves \cup {OrdGroup(<<>>), OrdGroup(<<AtomNode("bin")>>)}

\* the arguments: a symbol or a group of up to MaxBody elements
ParseNodes ==
    Leaves \cup {OrdGroup(body) : body \in SeqsUpTo(GroupElements, MaxBody)}

\* the arguments tried together with every other argument
FewNodes ==
    {AtomNode("rel"), OrdNode("mathord", "math"),
     OrdGroup(<<AtomNode("bin"), AtomNode("open")>>)}

\* context.loc(): no location, or the bytes the call spans
CallLocs == {{}, {SourceLocation(0, 3)}}

CallMathClass ==
    /\ tree_op = "none"
    /\ func_name \in math_class_names
    /\ parsed' = {math_class_handler(func_name, parser_mode,
                                     call_loc, args)}
    /\ tree_op' = "handler"
    /\ UNCHANGED <<func_name, args, parser_mode, call_loc, inner, built>>
    /\ UNCHANGED <<lexerVars, expanderVars, parserVars, tokenVars,
                   unitsVars, deriveVars, classVars, runnerVars>>

CallBinrel ==
    /\ tree_op = "none"
    /\ func_name = "\\@binrel"
    /\ parsed' = {binrel_handler(func_name, parser_mode, call_loc, args)}
    /\ tree_op' = "handler"
    /\ UNCHANGED <<func_name, args, parser_mode, call_loc, inner, built>>
    /\ UNCHANGED <<lexerVars, expanderVars, parserVars, tokenVars,
                   unitsVars, deriveVars, classVars, runnerVars>>

CallStacked ==
    /\ tree_op = "none"
    /\ func_name \in stacked_names
    /\ parsed' = {stacked_handler(func_name, parser_mode, call_loc, args)}
    /\ tree_op' = "handler"
    /\ UNCHANGED <<func_name, args, parser_mode, call_loc, inner, built>>
    /\ UNCHANGED <<lexerVars, expanderVars, parserVars, tokenVars,
                   unitsVars, deriveVars, classVars, runnerVars>>

\* the MathML builder, called on the node the handler returned
BuildMathml ==
    /\ tree_op = "handler"
    /\ \E node \in parsed, symbol_attributes \in SymbolAttributes :
        /\ inner' = build_expression(node.body, symbol_attributes)
        /\ built' = {mathml_builder(node, inner')}
    /\ tree_op' = "mathml_builder"
    /\ UNCHANGED <<func_name, args, parser_mode, call_loc, parsed>>
    /\ UNCHANGED <<lexerVars, expanderVars, parserVars, tokenVars,
                   unitsVars, deriveVars, classVars, runnerVars>>

MclassInit ==
    /\ InitLexer({<<>>}) /\ NoExpander /\ NoParser /\ NoTokens /\ NoUnits
    /\ NoDerive /\ NoClasses /\ NoRunner
    /\ \/ /\ func_name \in math_class_names
          /\ args \in {<<body>> : body \in ParseNodes}
       \/ /\ func_name \in stacked_names \cup {"\\@binrel"}
          /\ args \in {<<a, b>> : a \in ParseNodes, b \in FewNodes}
                      \cup {<<a, b>> : a \in FewNodes, b \in ParseNodes}
    /\ parser_mode \in {"math", "text"}
    /\ call_loc \in CallLocs
    /\ parsed = {}
    /\ inner = <<>>
    /\ built = {}
    /\ tree_op = "none"

MclassNext == CallMathClass \/ CallBinrel \/ CallStacked \/ BuildMathml

MclassSpec == MclassInit /\ [][MclassNext]_vars

---------------------------------------------------------------------------
(* types/class_list.rs: ClassList.  A class name is a string, a ClassList  *)
(* its variant and the names it stores (one for Static, none for Empty).   *)

Owned(vec) == [variant |-> "Owned", items |-> vec]
Static(class) == [variant |-> "Static", items |-> <<class>>]
Const(slice) == [variant |-> "Const", items |-> slice]
Empty == [variant |-> "Empty", items |-> <<>>]

\* ClassList::is_empty
is_empty(self) ==
    CASE self.variant = "Owned" -> self.items = <<>>
      [] self.variant = "Static" -> FALSE
      [] self.variant = "Const" -> self.items = <<>>
      [] OTHER -> TRUE

\* ClassList::len
len(self) ==
    CASE self.variant = "Owned" -> Len(self.items)
      [] self.variant = "Static" -> 1
      [] self.variant = "Const" -> Len(self.items)
      [] OTHER -> 0

\* slice::get
slice_get(items, index) ==
    IF index < Len(items) THEN {items[index + 1]} ELSE {}

\* ClassList::get
get(self, index) ==
    CASE self.variant = "Owned" -> slice_get(self.items, index)
      [] self.variant = "Static" -> {self.items[1]}
      [] self.variant = "Const" -> slice_get(self.items, index)
      [] OTHER -> {}

\* ClassList::inner_owned: the vector a list that is not Owned turns into
inner_owned(self) ==
    CASE self.variant = "Empty" -> <<>>
      [] self.variant = "Static" ->
           IF self.items[1] # "" THEN <<self.items[1]>> ELSE <<>>
      [] OTHER -> self.items

\* ClassList::ensure_owned: the list afterwards, always Owned
ensure_owned(self) ==
    IF self.variant = "Owned" THEN self ELSE Owned(inner_owned(self))

\* ClassList::get_mut: the list afterwards and the slot it returns
get_mut(self, index) ==
    LET list == ensure_owned(self)
    IN  [list |-> list, out |-> slice_get(list.items, index)]

\* ClassList::reserve
reserve(self, additional) ==
    IF additional = 0 THEN self ELSE ensure_owned(self)

\* ClassList::push
push(self, class) ==
    IF class = "" THEN self
    ELSE Owned(Append(ensure_owned(self).items, class))

\* Vec::insert: the vector with the element at index, for index <= len
vec_insert(vec, index, class) ==
    [i \in 1..(Len(vec) + 1) |->
        IF i <= index THEN vec[i]
        ELSE IF i = index + 1 THEN class
        ELSE vec[i - 1]]

\* ClassList::insert: the list afterwards, and whether Vec::insert panicked
insert(self, index, class) ==
    IF class = "" THEN [list |-> self, panic |-> FALSE]
    ELSE LET list == ensure_owned(self)
         IN  IF index > Len(list.items)
             THEN [list |-> list, panic |-> TRUE]
             ELSE [list |-> Owned(vec_insert(list.items, index, class)),
                   panic |-> FALSE]

\* the elements of a sequence that are not the empty string, in order
RECURSIVE non_empty(_)
non_empty(items) ==
    IF items = <<>> THEN <<>>
    ELSE IF Head(items) = "" THEN non_empty(Tail(items))
    ELSE <<Head(items)>> \o non_empty(Tail(items))

\* Extend::extend
extend(self, items) == Owned(ensure_owned(self).items \o non_empty(items))

\* ClassList::iter: the ClassListIter, with what it has yet to visit
iter(self) ==
    CASE self.variant = "Owned" -> [variant |-> "Owned", rest |-> self.items]
      [] self.variant = "Static" ->
           IF self.items[1] = ""
           THEN [variant |-> "Empty", rest |-> <<>>]
           ELSE [variant |-> "Static", rest |-> self.items]
      [] self.variant = "Const" -> [variant |-> "Const", rest |-> self.items]
      [] OTHER -> [variant |-> "Empty", rest |-> <<>>]

\* the first element of a slice iterator that is not empty, with the
\* iterator after it; None at the end
RECURSIVE next_non_empty(_)
next_non_empty(it) ==
    IF it.rest = <<>> THEN [out |-> {}, it |-> it]
    ELSE IF Head(it.rest) # ""
    THEN [out |-> {Head(it.rest)}, it |-> [it EXCEPT !.rest = Tail(it.rest)]]
    ELSE next_non_empty([it EXCEPT !.rest = Tail(it.rest)])

\* ClassListIter::next: what it yields and the iterator afterwards
next(it) ==
    CASE it.variant = "Owned" ->
           IF it.rest = <<>> THEN [out |-> {}, it |-> it]
           ELSE [out |-> {Head(it.rest)},
                 it |-> [it EXCEPT !.rest = Tail(it.rest)]]
      [] it.variant = "Static" ->
           IF it.rest = <<>> THEN [out |-> {}, it |-> it]
           ELSE [out |-> {Head(it.rest)}, it |-> [it EXCEPT !.rest = <<>>]]
      [] it.variant = "Const" -> next_non_empty(it)
      [] OTHER -> [out |-> {}, it |-> it]

\* everything an iterator yields until it returns None
RECURSIVE collect(_)
collect(it) ==
    LET step == next(it)
    IN  IF step.out = {} THEN <<>>
        ELSE <<CHOOSE class \in step.out : TRUE>> \o collect(step.it)

\* the class names used, the empty one among them
ClassNames == {"", "a", "b"}

\* the vectors and slices a ClassList is built from or extended with
ClassSlices == SeqsUpTo(ClassNames, MaxClasses)

\* the indices asked for
ClassIndices == 0..(MaxClasses + 1)

ClassOp(name, index, out) == [name |-> name, index |-> index, out |-> out]

Push ==
    /\ class_op.name # "panic"
    /\ len(class_list) <= MaxClasses
    /\ \E class \in ClassNames : class_list' = push(class_list, class)
    /\ class_op' = ClassOp("push", 0, {})
    /\ UNCHANGED <<lexerVars, expanderVars, parserVars, tokenVars,
                   unitsVars, treeVars, deriveVars, runnerVars>>

\* a panic of Vec::insert ends the program
Insert ==
    /\ class_op.name # "panic"
    /\ len(class_list) <= MaxClasses
    /\ \E index \in ClassIndices, class \in ClassNames :
        LET r == insert(class_list, index, class)
        IN  /\ class_list' = r.list
            /\ class_op' = ClassOp(IF r.panic THEN "panic" ELSE "insert",
                                   index, {})
    /\ UNCHANGED <<lexerVars, expanderVars, parserVars, tokenVars,
                   unitsVars, treeVars, deriveVars, runnerVars>>

ExtendWith ==
    /\ class_op.name # "panic"
    /\ len(class_list) <= MaxClasses
    /\ \E items \in ClassSlices : class_list' = extend(class_list, items)
    /\ class_op' = ClassOp("extend", 0, {})
    /\ UNCHANGED <<lexerVars, expanderVars, parserVars, tokenVars,
                   unitsVars, treeVars, deriveVars, runnerVars>>

Get ==
    /\ class_op.name # "panic"
    /\ \E index \in ClassIndices :
        class_op' = ClassOp("get", index, get(class_list, index))
    /\ UNCHANGED class_list
    /\ UNCHANGED <<lexerVars, expanderVars, parserVars, tokenVars,
                   unitsVars, treeVars, deriveVars, runnerVars>>

GetMut ==
    /\ class_op.name # "panic"
    /\ \E index \in ClassIndices :
        LET r == get_mut(class_list, index)
        IN  /\ class_list' = r.list
            /\ class_op' = ClassOp("get_mut", index, r.out)
    /\ UNCHANGED <<lexerVars, expanderVars, parserVars, tokenVars,
                   unitsVars, treeVars, deriveVars, runnerVars>>

Reserve ==
    /\ class_op.name # "panic"
    /\ \E additional \in {0, 1} :
        /\ class_list' = reserve(class_list, additional)
        /\ class_op' = ClassOp("reserve", additional, {})
    /\ UNCHANGED <<lexerVars, expanderVars, parserVars, tokenVars,
                   unitsVars, treeVars, deriveVars, runnerVars>>

\* the public constructors: Default, From<&'static str>,
\* From<&'static [&'static str]> and From<Vec<Cow<'static, str>>>
ClassInit ==
    /\ InitLexer({<<>>}) /\ NoExpander /\ NoParser /\ NoTokens /\ NoUnits
    /\ NoTree /\ NoDerive /\ NoRunner
    /\ class_list \in
         {Empty} \cup {Static(class) : class \in ClassNames}
         \cup {Const(slice) : slice \in ClassSlices}
         \cup {Owned(vec) : vec \in ClassSlices}
    /\ class_op = ClassOp("new", 0, {})

ClassNext == Push \/ Insert \/ ExtendWith \/ Get \/ GetMut \/ Reserve

ClassSpec == ClassInit /\ [][ClassNext]_vars

---------------------------------------------------------------------------
(* xtask/src/screenshotter: the per-browser loop of run_browser.  Cases    *)
(* are numbered from 1; a CaseResult is its status; a render or a          *)
(* comparison is the choice of its outcome.                                *)

\* CaseState::new with one attempt more than asked for
CaseState_new_lenient(total_attempts) ==
    [total_attempts |-> total_attempts, started |-> FALSE,
     attempts_started |-> 0, remaining_attempts |-> total_attempts + 1,
     final_result |-> {}, finalized |-> 0]

\* CaseState::new; finalized counts the calls of finalize
CaseState_new(total_attempts) ==
    [total_attempts |-> total_attempts, started |-> FALSE,
     attempts_started |-> 0, remaining_attempts |-> total_attempts,
     final_result |-> {}, finalized |-> 0]

\* CaseState::begin_attempt
begin_attempt(state) ==
    [state EXCEPT !.started = TRUE,
                  !.attempts_started = @ + 1,
                  !.remaining_attempts = IF @ > 0 THEN @ - 1 ELSE @]

attempts_left(state) == state.remaining_attempts

is_finished(state) == state.final_result # {}

\* CaseState::finalize
finalize(state, status) ==
    [state EXCEPT !.final_result = {status},
                  !.remaining_attempts = 0,
                  !.finalized = @ + 1]

\* the loop's collections, and whether a `?` ended run_browser
Loop(states, q, tasks, fallbacks, failed, fatal) ==
    [case_states |-> states, queue |-> q, compare_tasks |-> tasks,
     fallback_tasks |-> fallbacks, failures |-> failed, fatal |-> fatal]

\* a sequence without its k-th element
Without(s, k) == SubSeq(s, 1, k - 1) \o SubSeq(s, k + 1, Len(s))

\* the outcomes of a comparison task: the task cannot be joined, the
\* images are equal, they differ, an artifact cannot be written, or the
\* comparison failed
CompareOutcomes == {"join_error", "equal", "differ", "io_error", "error"}

\* process_next_compare, joining the k-th task with the given outcome
process_next_compare(l, allow, k, outcome) ==
    LET case_index == l.compare_tasks[k]
        state == l.case_states[case_index]
        joined == [l EXCEPT !.compare_tasks = Without(l.compare_tasks, k)]
        retried == [joined EXCEPT !.queue = Append(@, case_index)]
        failed(status) ==
            [joined EXCEPT
               !.failures = Append(@, <<case_index, status>>),
               !.case_states[case_index] = finalize(state, status)]
    IN  IF outcome = "join_error" THEN [joined EXCEPT !.fatal = TRUE]
        ELSE IF is_finished(state) THEN joined
        ELSE IF outcome = "io_error" THEN [joined EXCEPT !.fatal = TRUE]
        ELSE IF outcome = "equal"
        THEN [joined EXCEPT
                !.case_states[case_index] = finalize(state, "Pass")]
        ELSE IF outcome = "differ"
        THEN IF attempts_left(state) > 0 THEN retried
             ELSE IF allow
             THEN [joined EXCEPT !.fallback_tasks = Append(@, case_index)]
             ELSE failed("Mismatch")
        ELSE IF attempts_left(state) > 0 THEN retried
             ELSE failed("Error")

\* the outcomes of the render and comparison against the JS implementation
FallbackOutcomes == {"equal", "differ", "render_error", "err", "compare_err"}

\* handle_js_fallback for the pending case
handle_js_fallback(l, case_index, outcome) ==
    LET state == l.case_states[case_index]
        failed(status) ==
            [l EXCEPT
               !.failures = Append(@, <<case_index, status>>),
               !.case_states[case_index] = finalize(state, status)]
    IN  CASE outcome = "compare_err" -> [l EXCEPT !.fatal = TRUE]
          [] outcome = "equal" ->
               [l EXCEPT !.case_states[case_index] = finalize(state, "Pass")]
          [] outcome = "differ" -> failed("Mismatch")
          [] OTHER -> failed("Error")

\* the outcomes of render_case: a screenshot, a case error, a failure
RenderOutcomes == {"screenshot", "case_error", "err"}

\* the loop body for a case taken from the queue that is to be rendered
render(l, case_index, outcome) ==
    LET begun == [l EXCEPT !.case_states[case_index] = begin_attempt(@)]
        state == begun.case_states[case_index]
    IN  IF outcome = "screenshot"
        THEN [begun EXCEPT !.compare_tasks = Append(@, case_index)]
        ELSE IF attempts_left(state) > 0
        THEN [begun EXCEPT !.queue = Append(@, case_index)]
        ELSE [begun EXCEPT
                !.failures = Append(@, <<case_index, "Error">>),
                !.case_states[case_index] = finalize(state, "Error")]

\* the collections of the loop as they are now
TheLoop ==
    Loop(case_states, queue, compare_tasks, fallback_tasks, failures, FALSE)

\* the loop goes on with the collections of l, or run_browser has returned
\* the error
Continue(l) ==
    /\ case_states' = l.case_states
    /\ queue' = l.queue
    /\ compare_tasks' = l.compare_tasks
    /\ fallback_tasks' = l.fallback_tasks
    /\ failures' = l.failures
    /\ run_state' = IF l.fatal THEN "fatal" ELSE "loop"
    /\ UNCHANGED <<attempts, allow_js_fallback, concurrency_limit>>
    /\ UNCHANGED <<lexerVars, expanderVars, parserVars, tokenVars,
                   unitsVars, treeVars, deriveVars, classVars>>

\* if let Some(pending) = fallback_tasks.pop_front()
LoopFallback ==
    /\ run_state = "loop"
    /\ fallback_tasks # <<>>
    /\ \E outcome \in FallbackOutcomes :
        Continue(handle_js_fallback(
                   [TheLoop EXCEPT !.fallback_tasks = Tail(@)],
                   Head(fallback_tasks), outcome))

\* if let Some(case_index) = queue.pop_front()
LoopQueue ==
    /\ run_state = "loop"
    /\ fallback_tasks = <<>>
    /\ queue # <<>>
    /\ LET case_index == Head(queue)
           popped == [TheLoop EXCEPT !.queue = Tail(@)]
       IN  IF is_finished(case_states[case_index])
           THEN Continue(popped)
           ELSE IF Len(compare_tasks) >= concurrency_limit
           THEN \E k \in DOMAIN compare_tasks,
                   outcome \in CompareOutcomes :
                    Continue(process_next_compare(TheLoop, allow_js_fallback,
                                                  k, outcome))
           ELSE IF attempts_left(case_states[case_index]) = 0
           THEN Continue(popped)
           ELSE \E outcome \in RenderOutcomes :
                    Continue(render(popped, case_index, outcome))

\* else if !compare_tasks.is_empty()
LoopCompare ==
    /\ run_state = "loop"
    /\ fallback_tasks = <<>>
    /\ queue = <<>>
    /\ compare_tasks # <<>>
    /\ \E k \in DOMAIN compare_tasks, outcome \in CompareOutcomes :
        Continue(process_next_compare(TheLoop, allow_js_fallback,
                                      k, outcome))

\* the loop ends; the two loops after it find nothing left to do
LoopEnd ==
    /\ run_state = "loop"
    /\ fallback_tasks = <<>> /\ queue = <<>> /\ compare_tasks = <<>>
    /\ run_state' = "done"
    /\ UNCHANGED <<attempts, allow_js_fallback, concurrency_limit,
                   case_states, queue, compare_tasks, fallback_tasks,
                   failures>>
    /\ UNCHANGED <<lexerVars, expanderVars, parserVars, tokenVars,
                   unitsVars, treeVars, deriveVars, classVars>>

RunnerInit ==
    /\ InitLexer({<<>>}) /\ NoExpander /\ NoParser /\ NoTokens /\ NoUnits
    /\ NoTree /\ NoDerive /\ NoClasses
    /\ attempts \in 0..MaxAttempts
    /\ allow_js_fallback \in BOOLEAN
    /\ concurrency_limit \in {1, 2}
    /\ \E n \in 0..MaxCases :
         /\ case_states = [i \in 1..n |-> CaseState_new(attempts)]
         /\ queue = [i \in 1..n |-> i]
    /\ compare_tasks = <<>>
    /\ fallback_tasks = <<>>
    /\ failures = <<>>
    /\ run_state = "loop"

RunnerNext == LoopFallback \/ LoopQueue \/ LoopCompare \/ LoopEnd

RunnerSpec == RunnerInit /\ [][RunnerNext]_vars

---------------------------------------------------------------------------
(* What the claims say, stated apart from the lexer's own matchers. *)

Letters == (65..90) \cup (97..122)
WordChars == Letters \cup {64}
Whitespace == {32, 9, 13, 10}
LineBreaks == {10, 13}

\* the length of the longest prefix of s made of elements of S
RunOf(s, S) ==
    CHOOSE k \in 0..Len(s) :
        /\ \A i \in 1..k : s[i] \in S
        /\ k = Len(s) \/ s[k + 1] \notin S

\* the last operation was a lex() that read a character at offset `before`
LexedAt ==
    /\ op = "lex"
    /\ before < str_len(input)
    /\ is_char_boundary(input, before)

\* the input from the offset the last lex() started at
Ahead == str_from(input, before)

\* rest (the text after a backslash) is \verb or \verb*, a delimiter d (for
\* \verb neither '*' nor a letter) that is no line break, and a later d with
\* no line break in between; VerbClose is the index in rest of that closing d
VerbDelimAt(rest) == IF Len(rest) >= 5 /\ rest[5] = 42 THEN 6 ELSE 5

VerbOpens(rest) ==
    /\ starts_with(rest, VerbName)
    /\ Len(rest) >= VerbDelimAt(rest)
    /\ rest[VerbDelimAt(rest)] \notin LineBreaks
    /\ VerbDelimAt(rest) = 5 => rest[5] \notin Letters

VerbCloses(rest) ==
    {j \in (VerbDelimAt(rest) + 1)..Len(rest) :
        /\ rest[j] = rest[VerbDelimAt(rest)]
        /\ \A i \in (VerbDelimAt(rest) + 1)..(j - 1) : rest[i] \notin LineBreaks}

DelimitedVerb(rest) == VerbOpens(rest) /\ VerbCloses(rest) # {}

---------------------------------------------------------------------------
(* C1 *)

\* C1: on a fresh lexer repeated lex() calls end: a lex() that returns a
\* non-EOF token or UnexpectedCharacter has moved the offset forward, so the
\* first EOF token (text "EOF", start = end) or error is returned by one of
\* the first len(input) + 1 calls; and a lex() called at or past the end
\* returns the EOF token and leaves the offset where it was.
C1_LexTerminates ==
    /\ op = "lex" /\ (result.kind = "UnexpectedCharacter"
                      \/ (result.kind = "Token" /\ result.text # EofText))
         => last_index > before
    /\ fresh /\ ~reachedEnd => calls <= last_index /\ last_index <= str_len(input)
    /\ fresh => calls <= str_len(input) + 1
    /\ op = "lex" /\ result.kind = "Token" /\ result.text = EofText
         => result.start = result.end
    /\ op = "lex" /\ before >= str_len(input)
         => /\ result = OkToken(EofText, before, before)
            /\ last_index = before

\* a fresh lexer that lexed two tokens, reached EOF with its third call and
\* was asked again
C1_Witness ==
    /\ fresh /\ reachedEnd /\ calls = 3
    /\ op = "lex" /\ before = str_len(input) /\ last_index = before
    /\ result.kind = "Token" /\ result.text = EofText

---------------------------------------------------------------------------
(* C2 *)

\* C2: where the input is a backslash, n >= 1 ASCII letters or '@' and then
\* w >= 0 ASCII whitespace bytes, and is no delimited \verb run, lex() returns
\* the token whose text is the backslash and the n letters, and leaves the
\* offset at start + 1 + n + w.
C2_ControlWord ==
    LexedAt /\ Ahead[1] = 92 /\ RunOf(Tail(Ahead), WordChars) >= 1
            /\ ~DelimitedVerb(Tail(Ahead))
      => LET n == RunOf(Tail(Ahead), WordChars)
             w == RunOf(Drop(Ahead, 1 + n), Whitespace)
         IN  /\ result.kind = "Token"
             /\ result.text = SubSeq(Ahead, 1, 1 + n)
             /\ result.start = before
             /\ last_index = before + 1 + n + w

\* a control word followed by whitespace and more input was lexed
C2_Witness ==
    /\ LexedAt /\ Ahead[1] = 92
    /\ RunOf(Tail(Ahead), WordChars) >= 1
    /\ RunOf(Drop(Ahead, 1 + RunOf(Tail(Ahead), WordChars)), Whitespace) >= 1
    /\ last_index < str_len(input)
    /\ result.kind = "Token" /\ Len(result.text) >= 2

---------------------------------------------------------------------------
(* C5 *)

\* the allow-list of normal codepoints, as the claim gives it
AllowListed(c) ==
    \/ c \in 33..91
    \/ c >= 93 /\ c <= 8231
    \/ c >= 8234 /\ c <= 55295
    \/ c >= 63744

\* C5: where the first codepoint is no ASCII whitespace, no backslash
\* followed by another codepoint, and outside the allow-list, lex() returns
\* UnexpectedCharacter carrying exactly that codepoint, and no token.
C5_UnexpectedCharacter ==
    LexedAt /\ Ahead[1] \notin Whitespace
            /\ ~(Ahead[1] = 92 /\ Len(Ahead) >= 2)
            /\ ~AllowListed(Ahead[1])
      => /\ result.kind = "UnexpectedCharacter"
         /\ result.text = <<Ahead[1]>>
         /\ result.start = before
         /\ last_index = before + len_utf8(Ahead[1])

\* a lone backslash at the end of a longer input was rejected
C5_Witness ==
    /\ LexedAt /\ before > 0 /\ Ahead = <<92>>
    /\ result.kind = "UnexpectedCharacter" /\ result.text = <<92>>

---------------------------------------------------------------------------
(* C3 *)

\* C3: set_position changes nothing but the offset, which becomes its
\* argument; and once the lexer has been set back to an offset p from which
\* lex() was called before, with the category codes as they were then, lex()
\* returns what that first call returned and leaves the offset that call left.
C3_Backtracking ==
    [][ /\ op' = "set_position"
             => /\ last_index' = before'
                /\ <<input', catcodes', policy'>> = <<input, catcodes, policy>>
        /\ mark.rewound /\ last_index = mark.pos /\ catcodes = mark.cats
                        /\ op' = "lex"
             => result' = mark.res /\ last_index' = mark.after
      ]_vars

\* after lexing a token at p and lexing on past it, the lexer was set back to
\* p and returned the same token again
C3_Witness ==
    /\ mark.rewound /\ mark.from > mark.after /\ mark.after > mark.pos
    /\ op = "lex" /\ before = mark.pos /\ catcodes = mark.cats
    /\ mark.res.kind = "Token" /\ mark.res.text # EofText
    /\ result = mark.res /\ last_index = mark.after

---------------------------------------------------------------------------
(* C4 *)

\* the input at the offset of the last lex() starts with a token that is one
\* character, alone, whose category code is 14
CommentCharAt ==
    /\ get_catcode(catcodes, Ahead[1]) = {14}
    /\ exec(Ahead).branch # "Unknown"
    /\ exec(Ahead).mlen = len_utf8(Ahead[1])

\* C4: where lex() matches a one-character token whose character has category
\* code 14, it returns what lexing from the first offset after the line's
\* newline returns; with no newline left it returns no token but EOF.
C4_CommentSkipped ==
    LexedAt /\ CommentCharAt
      => LET nl == str_find(Ahead, 10)
         IN  IF nl # {}
             THEN \E v \in Verdicts :
                    LET r == lex(input, before + (CHOOSE n \in nl : TRUE) + 1,
                                 catcodes, v)
                    IN  result = r.res /\ last_index = r.pos
             ELSE result.kind = "Token" => result.text = EofText

---------------------------------------------------------------------------
(* C6 *)

\* the input at the offset of the last lex() is a backslash and "verb"
VerbAt == LexedAt /\ Ahead[1] = 92 /\ starts_with(Tail(Ahead), VerbName)

\* the token from the backslash through the first closing delimiter
VerbToken ==
    LET j == Min(VerbCloses(Tail(Ahead)))
    IN  OkToken(SubSeq(Ahead, 1, 1 + j), before,
                before + str_len(SubSeq(Ahead, 1, 1 + j)))

\* C6 as stated: a delimited \verb run is returned as one token from the
\* backslash through the first closing delimiter, and where \verb and its
\* delimiter are followed by no closing delimiter on the line, lex() fails.
C6_VerbOrFail ==
    VerbAt /\ VerbOpens(Tail(Ahead))
      => IF VerbCloses(Tail(Ahead)) # {}
         THEN result = VerbToken /\ last_index = VerbToken.end
         ELSE result.kind # "Token"

\* C6: a delimited \verb run (the delimiter no line break and, for \verb
\* without star, neither '*' nor a letter) is returned as one token from the
\* backslash through the first closing delimiter; any other text that starts
\* with \verb is no failure of lex(): it returns the control word, the
\* backslash and the letters that follow it, and skips the whitespace after.
C6_VerbOrControlWord ==
    VerbAt
      => IF DelimitedVerb(Tail(Ahead))
         THEN result = VerbToken /\ last_index = VerbToken.end
         ELSE LET n == RunOf(Tail(Ahead), WordChars)
                  w == RunOf(Drop(Ahead, 1 + n), Whitespace)
              IN  /\ result = OkToken(SubSeq(Ahead, 1, 1 + n), before,
                                      before + 1 + n + w)
                  /\ last_index = before + 1 + n + w

\* a \verb run with its two delimiters was returned as one token, short of
\* the end of the input
C6_Witness ==
    /\ VerbAt /\ DelimitedVerb(Tail(Ahead))
    /\ result.kind = "Token" /\ Len(result.text) >= 7
    /\ last_index < str_len(input)

---------------------------------------------------------------------------
(* C7 *)

\* the tokens s stands for once every macro in it is replaced, by at most
\* `fuel` replacements; the marker <<NoToken>> when they do not suffice
RECURSIVE FullExpansion(_, _, _)
FullExpansion(table, s, fuel) ==
    IF s = <<>> THEN <<>>
    ELSE IF expandable(table, Head(s))
    THEN IF fuel = 0 THEN <<NoToken>>
         ELSE FullExpansion(table,
                            retokenize(table[Head(s).name]) \o Tail(s),
                            fuel - 1)
    ELSE <<Head(s)>> \o FullExpansion(table, Tail(s), fuel)

\* C7: every pull of the next expanded token ends, either returning a token
\* that is no expandable bound macro or failing; it fails exactly when the
\* expansion count has passed max_expand, so the count never runs further;
\* and when EOF is returned the tokens returned are the whole expansion of
\* the input.
C7_ExpansionTerminates ==
    /\ [](/\ expansion_count <= max_expand + 1
          /\ exp_state = "failed" <=> expansion_count > max_expand
          /\ exp_state = "returned" => ~expandable(macros, yielded)
          /\ exp_state = "returned" /\ yielded.name = "EOF"
               => emitted = FullExpansion(macros, source, max_expand))
    /\ (exp_state = "expanding") ~> (exp_state \in {"returned", "failed"})

\* mutually recursive macros ran into the expansion limit
C7_Witness ==
    /\ exp_state = "failed"
    /\ DOMAIN macros = {"\\a", "\\b"}
    /\ macros["\\a"] = <<"\\b">> /\ macros["\\b"] = <<"\\a">>
    /\ max_expand = 2 /\ expansion_count = 3

---------------------------------------------------------------------------
(* C8 *)

\* the parse has ended, with a tree or with an error
ParseEnded == pdone \/ perr # NoError

\* the length of the group s starts with, a symbol or a braced symbol; 0 when
\* it starts with neither
GroupLen(s) ==
    IF s # <<>> /\ s[1] = Sym THEN 1
    ELSE IF Len(s) >= 3 /\ SubSeq(s, 1, 3) = <<LBrace, Sym, RBrace>> THEN 3
    ELSE 0

\* what a run s of attachments to one base comes to, the base having a
\* superscript (sup) and a subscript (sub) already and s standing directly
\* after a prime or not (primed): the first second attachment of a kind,
\* "ok" when there is none, "other" when s is no run of attachments or a
\* prime or '^' stands directly after a prime
RECURSIVE Attachments(_, _, _, _)
Attachments(s, sup, sub, primed) ==
    IF s = <<>> THEN "ok"
    ELSE IF s[1] = Prime
    THEN IF primed THEN "other"
         ELSE IF sup THEN "DoubleSuperscript"
         ELSE Attachments(Tail(s), TRUE, sub, TRUE)
    ELSE IF s[1] = Caret
    THEN IF primed THEN "other"
         ELSE IF sup THEN "DoubleSuperscript"
         ELSE IF GroupLen(Tail(s)) = 0 THEN "other"
         ELSE Attachments(Drop(s, 1 + GroupLen(Tail(s))), TRUE, sub, FALSE)
    ELSE IF s[1] = Underscore
    THEN IF sub THEN "DoubleSubscript"
         ELSE IF GroupLen(Tail(s)) = 0 THEN "other"
         ELSE Attachments(Drop(s, 1 + GroupLen(Tail(s))), sup, TRUE, FALSE)
    ELSE "other"

---------------------------------------------------------------------------
(* C9 *)

\* the names the claim takes for registered environments
RegisteredNames == {"pmatrix", "bmatrix"}

\* nothing before index i ends an expression or fails: symbols, open braces
\* and \begin of registered environments only
OpensOnly(i) ==
    \A j \in 1..(i - 1) :
        \/ tokens[j] \in {Sym, LBrace}
        \/ tokens[j].text = "\\begin" /\ tokens[j].env \in RegisteredNames

\* C9: a \begin{X} with X unregistered ends the parse with
\* NoSuchEnvironment{X}; a \begin{X} whose body is closed by \end{Y}, Y # X,
\* ends it with MismatchedEnvironmentEnd{X, Y}, whatever follows.
C9_Environments ==
    ParseEnded
      => \A i \in 1..Len(tokens) :
           tokens[i].text = "\\begin" /\ OpensOnly(i)
             => /\ tokens[i].env \notin RegisteredNames
                     => perr = PErr("NoSuchEnvironment", tokens[i].env, "")
                /\ \A k \in (i + 1)..Len(tokens) :
                     /\ tokens[i].env \in RegisteredNames
                     /\ tokens[k].text = "\\end" /\ tokens[k].env # tokens[i].env
                     /\ \A j \in (i + 1)..(k - 1) : tokens[j] = Sym
                     => perr = PErr("MismatchedEnvironmentEnd",
                                    tokens[i].env, tokens[k].env)

\* \begin{pmatrix} 1 \end{bmatrix} 1: the mismatch reported with more
\* input after the \end
C9_Witness ==
    /\ perr = PErr("MismatchedEnvironmentEnd", "pmatrix", "bmatrix")
    /\ tokens = <<Begin("pmatrix"), Sym, End("bmatrix"), Sym>>

---------------------------------------------------------------------------
(* C10 *)

\* '{' minus '}' among the tokens a..b
BraceDepth(a, b) ==
    Cardinality({k \in a..b : tokens[k].text = "{"})
      - Cardinality({k \in a..b : tokens[k].text = "}"})

\* the raw argument starting at index a is never closed: no closer stands
\* at brace depth 0 with the braces before it balanced
LeftUnclosed(a, closer) ==
    ~\E j \in a..Len(tokens) :
        /\ tokens[j].text = closer
        /\ BraceDepth(a, j - 1) = 0
        /\ \A k \in a..(j - 1) : BraceDepth(a, k) >= 0

IsGroupFrame(f) == f.kind = "expr" /\ f.closer = "}"

\* C10: where a group is awaited '{' opens one, and the parser is then
\* expecting '}'; an open group is left only by consuming '}' with the group
\* innermost; the end of the input or \end met while expecting '}' fails
\* with ExpectedToken{"}", found}, a '}' met with no group open with
\* ExpectedToken{"EOF", "}"}; an optional argument opened by '[' and left
\* unclosed fails with UnexpectedEndOfMacroArgument{"]"}, a special argument
\* opened by '{' and left unclosed with UnexpectedEndOfMacroArgument{"}"}.
C10_GroupParsing ==
    [][ Parsing =>
        /\ GroupAwaited /\ fetch.text = "{"
             => /\ Len(frames') = Len(frames) + 1
                /\ IsGroupFrame(frames'[Len(frames')])
                /\ ptr' = ptr + 1
        /\ \A d \in 1..Len(frames) :
             IsGroupFrame(frames[d]) /\ Len(frames') < d
             => /\ d = Len(frames)
                /\ fetch.text = "}" /\ ptr' = ptr + 1
                /\ perr' = NoError
        /\ IsGroupFrame(Top) /\ fetch.text \in {"EOF", "\\end"}
             => perr' = PErr("ExpectedToken", "}", fetch.text)
        /\ Len(frames) = 1 /\ fetch.text = "}"
             => perr' = PErr("ExpectedToken", "EOF", "}")
        /\ Top.kind = "opt" /\ fetch.text = "[" /\ LeftUnclosed(ptr + 1, "]")
             => perr' = PErr("UnexpectedEndOfMacroArgument", "]", "")
        /\ Top.kind = "special" /\ fetch.text = "{"
                                /\ LeftUnclosed(ptr + 1, "}")
             => perr' = PErr("UnexpectedEndOfMacroArgument", "}", "")
      ]_vars

\* \sqrt{1}: the group was opened, closed by its '}', and the parse
\* returned to the end of the input
C10_Witness ==
    /\ pdone /\ perr = NoError
    /\ tokens = <<Sqrt, LBrace, Sym, RBrace>>
    /\ ptr = 5 /\ Len(frames) = 1

---------------------------------------------------------------------------
\* C11: a Token's text is never mutated after the Token is created: no
\* operation on an existing Token changes its text, every transformation
\* makes a new Token value.  Token::set_text assigns the text in place.
C11_TextNeverMutated ==
    [][\A i \in DOMAIN token_values :
          token_values[i] # {} /\ token_values'[i] # {}
              => text_of(TheToken(token_values'[i]))
                     = text_of(TheToken(token_values[i]))]_vars

---------------------------------------------------------------------------
\* the characters whose category code the claims look up: the two of
\* Lexer::new, the two that set_catcode is called with, and one never set
ProbedChars == {37, 126, 32, 233, 97}

\* C12: the category-code map of a Lexer starts as exactly {'%': 14,
\* '~': 13} and is changed only by set_catcode, which updates the entry of
\* its one character, so get_catcode returns the last code set for a
\* character and None for a character never set; lex() and set_position()
\* leave the map unchanged, and set_catcode leaves the position unchanged.
C12_CatcodeFrame ==
    [][ /\ op = "new"
             => /\ catcodes = (37 :> 14 @@ 126 :> 13)
                /\ get_catcode(catcodes, 37) = {14}
                /\ get_catcode(catcodes, 126) = {13}
                /\ \A ch \in ProbedChars \ {37, 126} :
                      get_catcode(catcodes, ch) = {}
        /\ op' \in {"lex", "set_position"} => catcodes' = catcodes
        /\ catcodes' # catcodes => op' = "set_catcode"
        /\ op' = "set_catcode"
             => /\ last_index' = last_index
                /\ \E c \in CatcodeChoices :
                     /\ get_catcode(catcodes', c[1]) = {c[2]}
                     /\ DOMAIN catcodes' = DOMAIN catcodes \cup {c[1]}
                     /\ \A ch \in ProbedChars \ {c[1]} :
                          get_catcode(catcodes', ch) = get_catcode(catcodes, ch)
        /\ get_catcode(catcodes', 97) = {}
      ]_vars

\* after some lexing, the space was given code 14 and then code 12, and e
\* acute code 14: each lookup returns the last code set, '%' and '~' keep
\* theirs, and the offset is the one lex() left
C12_Witness ==
    /\ op = "set_catcode" /\ last_index > 0 /\ before = last_index
    /\ catcodes = (37 :> 14 @@ 126 :> 13 @@ 32 :> 12 @@ 233 :> 14)
    /\ get_catcode(catcodes, 32) = {12}

---------------------------------------------------------------------------
\* s starts with a comment that runs to the end of s: a one-byte character
\* of category code 14 matched alone, with no newline after it, or with a
\* newline that is followed at once by another such comment
RECURSIVE CommentRunsToEnd(_)
CommentRunsToEnd(s) ==
    /\ s # <<>>
    /\ get_catcode(catcodes, s[1]) = {14}
    /\ len_utf8(s[1]) = 1
    /\ s[1] \in Whitespace
          => Len(s) = 1 \/ s[2] \notin Whitespace
    /\ Len(s) >= 2 => ~is_combining_mark(s[2])
    /\ IF \A i \in 1..Len(s) : s[i] # 10 THEN TRUE
       ELSE CommentRunsToEnd(
                Drop(s, CHOOSE i \in 1..Len(s) :
                          s[i] = 10 /\ \A j \in 1..(i - 1) : s[j] # 10))

---------------------------------------------------------------------------
\* C14 as stated: a maximal run of one or more ASCII whitespace bytes
\* (space, tab, CR, LF) at the current position is consumed entirely by one
\* lex() call and yields exactly one token whose text is the single space,
\* whatever the length or composition of the run; the offset advances by
\* the full run length.
C14_WhitespaceRun ==
    LexedAt /\ Ahead[1] \in Whitespace
      => /\ result.kind = "Token" /\ result.text = <<32>>
         /\ result.start = before
         /\ result.end = before + RunOf(Ahead, Whitespace)
         /\ last_index = before + RunOf(Ahead, Whitespace)

\* C14, amended: the same, where the space character does not have category
\* code 14; where it has, the run is the start of a comment and no token.
C14_WhitespaceRunNoComment ==
    LexedAt /\ Ahead[1] \in Whitespace /\ get_catcode(catcodes, 32) # {14}
      => /\ result.kind = "Token" /\ result.text = <<32>>
         /\ result.start = before
         /\ result.end = before + RunOf(Ahead, Whitespace)
         /\ last_index = before + RunOf(Ahead, Whitespace)

\* after 'a', the run tab, CR, newline was lexed as one space token
C14_Witness ==
    /\ op = "lex" /\ input = <<97, 9, 13, 10>> /\ before = 1
    /\ result.kind = "Token" /\ result.text = <<32>>
    /\ last_index = 4

---------------------------------------------------------------------------
\* horizontal whitespace: space, tab, CR
Horizontal == {32, 9, 13}

\* how many of the first n elements of s are newlines
Newlines(s, n) == Cardinality({i \in 1..n : s[i] = 10})

\* C15: a backslash followed by a newline, or by a run of horizontal
\* whitespace optionally followed by one newline, is lexed as one
\* control-space token with text "\ " that also swallows the horizontal
\* whitespace after it; the token consumes at most one newline, so a second
\* consecutive newline is left in the stream.
C15_ControlSpace ==
    LexedAt /\ Ahead[1] = 92 /\ Len(Ahead) >= 2
            /\ Ahead[2] \in Horizontal \cup {10}
      => LET h == RunOf(Tail(Ahead), Horizontal)
             nl == IF Len(Ahead) >= h + 2 /\ Ahead[h + 2] = 10 THEN 1 ELSE 0
             after == RunOf(Drop(Ahead, 1 + h + nl), Horizontal)
             taken == last_index - before
         IN  /\ result.kind = "Token" /\ result.text = <<92, 32>>
             /\ result.start = before /\ result.end = last_index
             /\ taken = 1 + h + nl + after
             /\ Newlines(Ahead, taken) <= 1
             /\ Newlines(Ahead, taken) = 1 /\ Len(Ahead) > taken
                  => Ahead[taken + 1] \notin Horizontal
             /\ nl = 1 /\ Len(Ahead) >= h + 3 /\ Ahead[h + 3] = 10
                  => taken = h + 2 /\ input[last_index + 1] = 10

\* backslash, tab, newline, newline: the control space took the tab and the
\* first newline and left the second
C15_Witness ==
    /\ op = "lex" /\ input = <<92, 9, 10, 10>> /\ before = 0
    /\ result.kind = "Token" /\ result.text = <<92, 32>>
    /\ last_index = 3

---------------------------------------------------------------------------
CombiningMarks == 768..879

\* the last lex() returned a token, not EOF, that ends at `last_index`
\* immediately before a combining mark
EndsBeforeMark ==
    /\ op = "lex" /\ result.kind = "Token" /\ result.text # EofText
    /\ last_index < str_len(input) /\ is_char_boundary(input, last_index)
    /\ str_from(input, last_index)[1] \in CombiningMarks

\* C16 as stated: an allow-listed normal codepoint followed by k >= 0
\* combining marks (U+0300-U+036F) is returned as one token whose text is
\* the base codepoint plus all k marks, the offset advancing by their total
\* UTF-8 length; a token never ends immediately before a combining mark.
C16_NormalWithMarks ==
    /\ LexedAt /\ AllowListed(Ahead[1])
         => LET k == RunOf(Tail(Ahead), CombiningMarks)
            IN  /\ result.kind = "Token"
                /\ result.text = SubSeq(Ahead, 1, 1 + k)
                /\ result.start = before
                /\ last_index = before + str_len(SubSeq(Ahead, 1, 1 + k))
    /\ ~EndsBeforeMark

\* C16, amended: the same, unless the codepoint stands alone (k = 0), is one
\* byte long and has category code 14, when it starts a comment; and it is
\* the token of a normal codepoint that never ends immediately before a
\* combining mark.
C16_NormalWithMarksNoComment ==
    /\ LexedAt /\ AllowListed(Ahead[1])
         => LET k == RunOf(Tail(Ahead), CombiningMarks)
            IN  ~(k = 0 /\ len_utf8(Ahead[1]) = 1
                        /\ get_catcode(catcodes, Ahead[1]) = {14})
                  => /\ result.kind = "Token"
                     /\ result.text = SubSeq(Ahead, 1, 1 + k)
                     /\ result.start = before
                     /\ last_index
                          = before + str_len(SubSeq(Ahead, 1, 1 + k))
    /\ EndsBeforeMark /\ is_char_boundary(input, result.start)
         => ~AllowListed(str_from(input, result.start)[1])

\* 'a' and two combining acute accents were returned as one token of five
\* bytes
C16_Witness ==
    /\ op = "lex" /\ input = <<97, 769, 769>> /\ before = 0
    /\ result.kind = "Token" /\ result.text = <<97, 769, 769>>
    /\ last_index = 5

---------------------------------------------------------------------------
\* the units the claims name as valid
NamedUnits ==
    {"pt", "mm", "cm", "in", "bp", "px", "pc", "dd", "cc", "nd", "nc", "sp",
     "ex", "em", "mu"}

\* calculate_size has been called and returned `out`
Sized(out) == units_op = "calculate_size" /\ size_out = {out}

\* C17: calculate_size returns the error InvalidUnit{unit} exactly when the
\* measurement's unit is none of pt, mm, cm, in, bp, px, pc, dd, cc, nd, nc,
\* sp, ex, em, mu, that is exactly when valid_unit_str(unit) is false; for
\* every unit accepted by valid_unit_str it returns Ok, for any Options.
C17_InvalidUnit ==
    \A out \in size_out :
        /\ valid_unit_str(measurement.unit)
              <=> measurement.unit \in NamedUnits
        /\ valid_unit(measurement) <=> valid_unit_str(measurement.unit)
        /\ out.kind = "InvalidUnit" <=> measurement.unit \notin NamedUnits
        /\ out.kind = "InvalidUnit" => out.unit = measurement.unit
        /\ valid_unit_str(measurement.unit) <=> out.kind = "Ok"

\* "1au" under a tight style was refused with its unit
C17_Witness ==
    /\ Sized(InvalidUnit("au"))
    /\ measurement = Measurement(Rat(1, 1), "au")
    /\ \E opts \in options : is_tight(opts.style)

---------------------------------------------------------------------------
AbsoluteUnits ==
    {"pt", "mm", "cm", "in", "bp", "px", "pc", "dd", "cc", "nd", "nc", "sp"}

One == Rat(1, 1)

\* C19: for an absolute unit u, calculate_size returns number x ptPerUnit(u)
\* / ptPerEm(metrics of the current size) / size_multiplier (below the
\* max_size cap), so a 10pt measurement at the default 10pt-per-em text size
\* with multiplier 1 resolves to 1.0 em.
C19_AbsoluteUnits ==
    \A out \in size_out, opts \in options :
        measurement.unit \in AbsoluteUnits
          => LET pt_per_em == get_global_metrics(opts.size).pt_per_em
                 points == RMul(measurement.number,
                                PT_PER_UNIT[measurement.unit])
             IN  /\ out.kind = "Ok"
                 /\ RLe(out.value, opts.max_size)
                 /\ out.value # opts.max_size
                      => RMul(RMul(out.value, pt_per_em),
                              opts.size_multiplier) = points
                 /\ measurement = Measurement(Rat(10, 1), "pt")
                      /\ opts.size = 6 /\ opts.size_multiplier = One
                      /\ opts.max_size = Infinity
                      => out.value = One

\* 10pt at size 6 with multiplier 1 and no cap came to 1 em
C19_Witness ==
    /\ Sized(SizeOk(One))
    /\ measurement = Measurement(Rat(10, 1), "pt")
    /\ options = {Options(FALSE, 6, One, Infinity)}

---------------------------------------------------------------------------
\* C20: for the units ex and em, calculate_size takes x-height/quad from the
\* text-style metrics: when the current style is tight it uses the Options
\* derived by having_style(style.text()) and multiplies the scale by (derived
\* size_multiplier / current size_multiplier) exactly when the derived size
\* differs from the current size; when the style is not tight it uses the
\* current Options unchanged (2em in text style is 2.0 em); mu uses the
\* current size's css_em_per_mu with no compensation.
C20_RelativeUnits ==
    \A out \in size_out, opts \in options, derived \in text_options :
        LET used == IF is_tight(opts.style) THEN derived ELSE opts
            metrics == get_global_metrics(used.size)
            compensated == is_tight(opts.style) /\ derived.size # opts.size
            plain == RMul(measurement.number,
                          IF measurement.unit = "ex" THEN metrics.x_height
                          ELSE metrics.quad)
            below == out.value # opts.max_size
        IN  /\ measurement.unit \in {"ex", "em"}
                  => /\ out.kind = "Ok"
                     /\ below /\ compensated
                          => RMul(out.value, opts.size_multiplier)
                               = RMul(plain, derived.size_multiplier)
                     /\ below /\ ~compensated => out.value = plain
            /\ measurement = Measurement(Rat(2, 1), "em")
                  /\ ~is_tight(opts.style) /\ opts.size = 6
                  /\ opts.max_size = Infinity
                  => out.value = Rat(2, 1)
            /\ measurement.unit = "mu"
                  => /\ out.kind = "Ok"
                     /\ below
                          => out.value
                               = RMul(measurement.number,
                                      get_global_metrics(opts.size)
                                          .css_em_per_mu)

\* 2em under a tight style of size 3 and multiplier 7/10, whose text style
\* has size 6 and multiplier 1: the quad of size 6, times 1 / (7/10)
C20_Witness ==
    /\ Sized(SizeOk(Rat(20, 7)))
    /\ measurement = Measurement(Rat(2, 1), "em")
    /\ options = {Options(TRUE, 3, Rat(7, 10), Infinity)}
    /\ text_options = {Options(FALSE, 6, One, Infinity)}

---------------------------------------------------------------------------
\* the whole number written by a sequence of decimal digits
RECURSIVE DigitsValue(_)
DigitsValue(digits) ==
    IF digits = <<>> THEN 0
    ELSE 10 * DigitsValue(SubSeq(digits, 1, Len(digits) - 1))
         + (digits[Len(digits)] - 48)

\* text is a decimal numeral in its shortest form and "em": an optional
\* '-', digits, and optionally '.' and one to four digits that do not end
\* in '0'; Numeral(text) is its parts
Numeral(text) ==
    LET body == SubSeq(text, 1, Len(text) - 2)
        neg == body # <<>> /\ body[1] = 45
        digits == IF neg THEN Tail(body) ELSE body
        dots == {i \in 1..Len(digits) : digits[i] = 46}
        dot == IF dots = {} THEN Len(digits) + 1 ELSE CHOOSE i \in dots : TRUE
    IN  [neg |-> neg,
         whole |-> SubSeq(digits, 1, dot - 1),
         pointed |-> dots # {},
         decimals |-> SubSeq(digits, dot + 1, Len(digits))]

WellFormedEm(text) ==
    /\ Len(text) >= 3
    /\ SubSeq(text, Len(text) - 1, Len(text)) = <<101, 109>>
    /\ LET p == Numeral(text)
       IN  /\ p.whole # <<>>
           /\ \A i \in 1..Len(p.whole) : p.whole[i] \in 48..57
           /\ \A i \in 1..Len(p.decimals) : p.decimals[i] \in 48..57
           /\ Len(p.whole) > 1 => p.whole[1] # 48
           /\ Len(p.decimals) <= 4
           /\ p.pointed => /\ p.decimals # <<>>
                           /\ p.decimals[Len(p.decimals)] # 48

\* the value of a well-formed text, in ten-thousandths
TenThousandths(text) ==
    LET p == Numeral(text)
    IN  DigitsValue(p.whole) * 10000
        + DigitsValue(p.decimals) * 10^(4 - Len(p.decimals))

ClassArgument == IF func_name = "\\@binrel" THEN args[1] ELSE args[2]

\* the node binrel_class is to inspect: the first element of a group that
\* has one, the argument otherwise
Inspected ==
    IF ClassArgument.type = "ordgroup" /\ Len(ClassArgument.body) >= 1
    THEN Head(ClassArgument.body)
    ELSE ClassArgument

IsAtomOf(node, family) == node.type = "atom" /\ node.family = family

\* C21: binrel_class(arg) inspects the first element of arg's body when arg
\* is a non-empty ordinary group and arg itself otherwise; it returns Mbin
\* exactly when the inspected node is an atom of family Bin, Mrel exactly
\* when it is an atom of family Rel, and Mord in every other case (other
\* families, non-atom nodes, empty groups, nested groups); the result is
\* always one of Mbin, Mrel, Mord.
C21_BinrelClass ==
    \A node \in parsed :
        func_name \in {"\\@binrel", "\\overset", "\\underset"}
          => /\ node.mclass \in {Mbin, Mrel, Mord}
             /\ node.mclass = Mbin <=> IsAtomOf(Inspected, "bin")
             /\ node.mclass = Mrel <=> IsAtomOf(Inspected, "rel")
             /\ ClassArgument = OrdGroup(<<>>) => node.mclass = Mord
             /\ Inspected.type = "ordgroup" => node.mclass = Mord

\* \@binrel was given a group that opens with a binary operator, and took
\* the class of that operator
C21_Witness ==
    /\ tree_op = "handler" /\ func_name = "\\@binrel"
    /\ args[1] = OrdGroup(<<AtomNode("bin"), OrdNode("mathord", "math")>>)
    /\ \E node \in parsed : node.mclass = Mbin

\* the values an attribute has on a built node, none when it is absent
AttributeOf(node, key) == {e[2] : e \in {a \in node.attributes : a[1] = key}}

SpacingKeys == {"lspace", "rspace", "width"}

\* C22: the MathML builder for an mclass node attaches spacing attributes
\* only where the class deviates from the MathML default: Mbin gets
\* lspace = rspace = "0.22em", Mopen and Mclose get lspace = rspace = "0em",
\* Mpunct gets lspace = "0em" and rspace = "0.17em", while Mrel and Mord get
\* no lspace, rspace or width attribute.
C22_SpacingAttributes ==
    tree_op = "mathml_builder"
      => \A node \in parsed, out \in built :
           /\ out.ok
           /\ node.mclass = Mbin
                => /\ AttributeOf(out.node, "lspace") = {"0.22em"}
                   /\ AttributeOf(out.node, "rspace") = {"0.22em"}
           /\ node.mclass \in {Mopen, Mclose}
                => /\ AttributeOf(out.node, "lspace") = {"0em"}
                   /\ AttributeOf(out.node, "rspace") = {"0em"}
           /\ node.mclass = Mpunct
                => /\ AttributeOf(out.node, "lspace") = {"0em"}
                   /\ AttributeOf(out.node, "rspace") = {"0.17em"}
           /\ node.mclass \in {Mrel, Mord}
                => \A key \in SpacingKeys : AttributeOf(out.node, key) = {}

\* \mathpunct of a single symbol: the symbol's own element came back, with
\* the punctuation spacing on it
C22_Witness ==
    /\ tree_op = "mathml_builder" /\ func_name = "\\mathpunct"
    /\ args = <<AtomNode("punct")>>
    /\ built = {[ok |-> TRUE,
                 node |-> MathNode("mo", {<<"lspace", "0em">>,
                                          <<"rspace", "0.17em">>},
                                   <<"punct">>)]}

\* C23: for an mclass node of class Minner (\mathinner), the MathML builder
\* returns an mpadded node wrapping the built body that carries the spacing
\* attributes lspace = "0.0556em" and width = "+0.1111em".
C23_InnerPadded ==
    tree_op = "mathml_builder"
      => \A node \in parsed, out \in built :
           node.mclass = Minner
             => /\ out.ok
                /\ out.node.node_type = "mpadded"
                /\ out.node.children = inner
                /\ AttributeOf(out.node, "lspace") = {"0.0556em"}
                /\ AttributeOf(out.node, "width") = {"+0.1111em"}

\* C27: for \stackrel, \overset and \underset the parse handler returns an
\* mclass node whose body is a single sup/sub node over an operator base
\* with limits enabled: the class is always Mrel for \stackrel and
\* binrel_class(base argument) for \overset and \underset; the shifted
\* argument is placed as the subscript with no superscript for \underset and
\* as the superscript with no subscript for the other two;
\* suppress_base_shift is set for every name except \stackrel.
C27_StackedHandler ==
    \A node \in parsed :
        func_name \in stacked_names
          => /\ node.type = "mclass"
             /\ Len(node.body) = 1
             /\ node.body[1].type = "supsub"
             /\ \E base \in node.body[1].base :
                  /\ node.body[1].base = {base}
                  /\ base.type = "op"
                  /\ base.limits
                  /\ base.suppress_base_shift = {func_name # "\\stackrel"}
             /\ func_name = "\\stackrel" => node.mclass = Mrel
             /\ func_name # "\\stackrel"
                  => node.mclass = binrel_class(args[2])
             /\ func_name = "\\underset"
                  => /\ node.body[1].sub = {args[1]}
                     /\ node.body[1].sup = {}
             /\ func_name # "\\underset"
                  => /\ node.body[1].sup = {args[1]}
                     /\ node.body[1].sub = {}

\* \underset{x}{+}: the class of the binary operator, x below it and
\* nothing above
C27_Witness ==
    /\ tree_op = "handler" /\ func_name = "\\underset"
    /\ args = <<OrdNode("mathord", "math"), AtomNode("bin")>>
    /\ \E node \in parsed :
         /\ node.mclass = Mbin
         /\ node.body[1].sub = {OrdNode("mathord", "math")}
         /\ node.body[1].sup = {}

\* C24: deriving an Options with the style it already has returns a value
\* equal in every field to the original, and every derivation (having_style
\* and the other "having" operations) returns a new value and leaves the
\* Options it was called on unchanged, so a context derived for one subtree
\* is never observed by a sibling.
C24_DerivationsPure ==
    [][/\ \A i \in DOMAIN contexts :
            i \in DOMAIN contexts' /\ contexts'[i] = contexts[i]
       /\ ctx_op'.name = "having_style"
            => /\ Len(contexts') = Len(contexts) + 1
               /\ is_tight(contexts'[Len(contexts')].style) = ctx_op'.tight
               /\ ctx_op'.tight = is_tight(contexts[ctx_op'.from].style)
                    => contexts'[Len(contexts')] = contexts[ctx_op'.from]]_vars

\* a tight root context at size 1, a child derived from it for one subtree
\* with another style and size, and then a second child derived from the
\* root with the root's own style: it equals the root, not its sibling
C24_Witness ==
    /\ Len(contexts) = 3
    /\ ctx_op = [name |-> "having_style", from |-> 1, tight |-> TRUE]
    /\ contexts[1] = Options(TRUE, 1, Rat(1, 2), Infinity)
    /\ contexts[2] = Options(FALSE, 6, Rat(1, 1), Infinity)
    /\ contexts[3] = contexts[1]

\* C25: after any sequence of lex() and set_catcode() calls on a fresh Lexer
\* (for any catcode assignment, no set_position), position() is at most the
\* input length and lies on a UTF-8 character boundary, and every token
\* returned has a location with start <= end <= input length and end equal
\* to position() right after the call.
C25_PositionInBounds ==
    /\ last_index <= str_len(input)
    /\ is_char_boundary(input, last_index)
    /\ op = "lex" /\ result.kind = "Token"
         => /\ result.start <= result.end
            /\ result.end <= str_len(input)
            /\ result.end = last_index

\* the classes iter() yields for the list, in order
Yielded == collect(iter(class_list))

\* C28: for every ClassList value that can be built through its public
\* constructors and push/insert/extend, empty class names are ignored:
\* len() equals the number of classes iter() yields, is_empty() holds
\* exactly when iter() yields nothing, and no empty string is ever counted,
\* yielded or stored.
C28_EmptyNamesIgnored ==
    class_op.name \in {"new", "push", "insert", "extend"}
      => /\ len(class_list) = Len(Yielded)
         /\ is_empty(class_list) <=> Yielded = <<>>
         /\ \A i \in DOMAIN Yielded : Yielded[i] # ""
         /\ \A i \in DOMAIN class_list.items : class_list.items[i] # ""

\* C29: ClassList::get(index) returns a class only if one exists at that
\* index: it returns Some(c) exactly when index < len(), with c the
\* index-th class in iteration order, and None for every index >= len(),
\* for every variant (Owned, Static, Const, Empty).
C29_GetWithinLen ==
    class_op.name = "get"
      => /\ class_op.out # {} <=> class_op.index < len(class_list)
         /\ class_op.index < Len(Yielded)
              => class_op.out = {Yielded[class_op.index + 1]}
         /\ class_op.index >= len(class_list) => class_op.out = {}

\* what calculate_size returns for the same measurement and Options when no
\* cap is set
Uncapped ==
    calculate_size(measurement,
                   [(CHOOSE o \in options : TRUE)
                       EXCEPT !.max_size = Infinity],
                   CHOOSE o \in text_options : TRUE).value

\* C30: for every valid unit (absolute, mu, ex, em) and every Options, the
\* value returned by calculate_size never exceeds options.max_size: the cap
\* is applied last, after all unit scaling and tight-style compensation, and
\* it bounds only from above (negative results are returned unclamped).
C30_MaxSize ==
    \A out \in size_out, opts \in options :
        valid_unit_str(measurement.unit)
          => /\ out.kind = "Ok"
             /\ RLe(out.value, opts.max_size)
             /\ out.value = IF RLe(Uncapped, opts.max_size)
                            THEN Uncapped
                            ELSE opts.max_size
             /\ RLe(Uncapped, Rat(0, 1)) /\ RLe(Rat(0, 1), opts.max_size)
                  => out.value = Uncapped

\* 2em in a tight style at size 3 is 20/7 em after the compensation, and
\* the cap of 1 brings it down to 1
C30_Witness ==
    /\ Sized(SizeOk(One))
    /\ measurement = Measurement(Rat(2, 1), "em")
    /\ options = {Options(TRUE, 3, Rat(7, 10), One)}
    /\ text_options = {Options(FALSE, 6, One, One)}
    /\ Uncapped = Rat(20, 7)

\* how many comparisons of the case are in flight
InFlight(case_index) ==
    Cardinality({k \in DOMAIN compare_tasks : compare_tasks[k] = case_index})

\* the entries of the failures list for the case
FailuresOf(case_index) ==
    {k \in DOMAIN failures : failures[k][1] = case_index}

\* what the claim says of a state of the loop
RunnerState ==
    /\ \A i \in DOMAIN case_states :
         /\ case_states[i].attempts_started <= attempts
         /\ InFlight(i) <= 1
    /\ run_state = "done"
         => \A i \in DOMAIN case_states :
              /\ case_states[i].finalized = 1
              /\ \E status \in {"Pass", "Mismatch", "Error"} :
                   /\ case_states[i].final_result = {status}
                   /\ Cardinality(FailuresOf(i)) =
                        IF status = "Pass" THEN 0 ELSE 1
                   /\ \A k \in FailuresOf(i) : failures[k][2] = status

\* C26: in the screenshot runner's per-browser loop, with attempts >= 1,
\* every case is rendered for comparison at most `attempts` times, a case
\* that has a final result is never attempted again and has at most one
\* comparison in flight at a time, and when the loop ends without a fatal
\* error every case has exactly one final result (Pass, Mismatch or Error),
\* the failures list holding exactly the non-passing cases once each.
C26_RunnerAttempts ==
    [][attempts >= 1
         => /\ RunnerState'
            /\ \A i \in DOMAIN case_states :
                 is_finished(case_states[i])
                   => /\ case_states'[i] = case_states[i]
                      /\ InFlight(i)' = 0]_vars

\* two cases with two attempts each: the first was rendered twice and
\* ended as a mismatch, the second passed, and the loop has ended
C26_Witness ==
    /\ run_state = "done" /\ attempts = 2 /\ Len(case_states) = 2
    /\ case_states[1].attempts_started = 2
    /\ case_states[1].final_result = {"Mismatch"}
    /\ case_states[2].final_result = {"Pass"}
    /\ failures = <<<<1, "Mismatch">>>>

===========================================================================
